---- MODULE Spec2Model ----
(***************************************************************************)
(* A model of the JOS exokernel core: the environment table, the          *)
(* per-environment address spaces, the physical page pool, the system     *)
(* calls of kern/syscall.c, the trap dispatch and the page fault handler  *)
(* of kern/trap.c and the round-robin scheduler of kern/sched.c; the      *)
(* E100 network driver of kern/e100.c (variable e100); the entry stubs of *)
(* kern/trapentry.S, which build the trap frame on the kernel stack       *)
(* (variable kstack); and the user library's ipc_send and ipc_recv of     *)
(* lib/ipc.c and fork of lib/fork.c, whose position in each environment   *)
(* and the bytes of the frames are in variable user.                      *)
(*                                                                         *)
(* A virtual address is a record [pn, off]: page number and offset in the *)
(* page.  A permission bitmap is the set of the names of its bits, so     *)
(* a & b is intersection, a | b is union and a & ~b is set difference.    *)
(* Each address space is tracked at the pages of UserPNs and at the page  *)
(* at UTOP.                                                                *)
(***************************************************************************)
EXTENDS Integers, FiniteSets, Sequences, TLC

VARIABLES envs, pgdir, ptes, pp_ref, page_free_list, curenv, kstate, last,
          nsteps, fresh, user, e100, kstack

vars == <<envs, pgdir, ptes, pp_ref, page_free_list, curenv, kstate, last,
          nsteps, fresh, user, e100, kstack>>

----------------------------------------------------------------------------
\* Bounds of the model.

\* Size of the environment table (N, chosen at build).
NENV == 3
\* Number of physical frames in the pool (npage).
NFrames == 9
\* Highest generation an id encodes (the width of an id, scaled down); the
\* generation after it is 1 again.
MaxGen == 2
\* Number of kernel entries (system calls, interrupts and exceptions) in a
\* run.
MaxSteps == 2
\* Number of blocks in each ring of the network driver (10 in kern/e100.h).
CBLSIZE == 3
\* Number of calls of the network driver in a run.
MaxCalls == 6
\* Number of frames of the machine fork runs on.
ForkFrames == 19
\* Number of bytes a program writes after fork.
MaxStores == 1

----------------------------------------------------------------------------
\* Constants of the headers (inc/mmu.h, inc/memlayout.h, inc/error.h).

NPTENTRIES == 1024
PGSIZE == 4096
\* Number of pages of the 32-bit address space.
NPAGES == 1048576
\* Page number of UTOP (0xeec00000 >> 12).
UTOP_PN == 978944
\* Modulus of the 16-bit pp_ref field of struct Page.
PP_REF_MOD == 65536

\* sizeof(struct UTrapframe): fault_va, err, eight registers, eip, eflags,
\* esp.
UTF_SIZE == 52

\* Trap numbers (inc/trap.h).
T_DIVIDE == 0
T_BRKPT == 3
T_GPFLT == 13
T_PGFLT == 14
T_SYSCALL == 48
IRQ_OFFSET == 32
IRQ_TIMER == 0
IRQ_KBD == 1
IRQ_SPURIOUS == 7

E_BAD_ENV == 2
E_INVAL == 3
E_NO_MEM == 4
E_NO_FREE_ENV == 5
E_IPC_NOT_RECV == 7

PTE_P == {"P"}
PTE_W == {"W"}
PTE_U == {"U"}
PTE_COW == {"COW"}
PTE_AVAIL == {"AVL9", "AVL10", "COW"}
PTE_USER == PTE_AVAIL \cup PTE_P \cup PTE_W \cup PTE_U
\* A bit outside PTE_USER (page-level write-through).
PTE_PWT == {"PWT"}

\* Code segment selectors: user text at privilege 3, kernel text.
GD_UT_3 == "GD_UT|3"
GD_KT == "GD_KT"
\* Bits of eflags: interrupt enable, and the two bits of the I/O privilege
\* level.
FL_IF == {"IF"}
FL_IOPL_MASK == {"IOPL12", "IOPL13"}

ENV_FREE == "ENV_FREE"
ENV_RUNNABLE == "ENV_RUNNABLE"
ENV_NOT_RUNNABLE == "ENV_NOT_RUNNABLE"

----------------------------------------------------------------------------
\* Addresses, frames, slots.

Slots == 0 .. (NENV - 1)
Frames == 1 .. NFrames
\* curenv == NULL
NoEnv == 0 - 1

VA(pn, off) == [pn |-> pn, off |-> off]
NULL == VA(0, 0)
UTOP == VA(UTOP_PN, 0)
UXSTACKTOP == UTOP
\* Top of the normal user stack, one empty page below the exception stack.
USTACKTOP == VA(UTOP_PN - 2, 0)
PGOFF(va) == va.off
PDX(pn) == pn \div NPTENTRIES
AboveUTOP(va) == va.pn >= UTOP_PN

\* The user pages the model tracks: page 0, the page the library's fault
\* handler maps its copies at (PFTEMP, 0x7ff000), the page of a program's
\* text and data (UTEXT, 0x800000), the page between the normal stack and
\* the exception stack (at USTACKTOP) and the user exception stack; the
\* first three lie under different page tables.  Every other user page is
\* unmapped.
ProgPN == 2 * NPTENTRIES
PFTEMP_PN == ProgPN - 1
XSTACK_PN == UTOP_PN - 1
UserPNs == {0, PFTEMP_PN, ProgPN, USTACKTOP.pn, XSTACK_PN}
ModelPNs == UserPNs \cup {UTOP_PN}
UserPDXs == {PDX(pn) : pn \in UserPNs}

NoPTE == [pa |-> 0, perm |-> {}]

\* The address n bytes below va, modulo 2^32 (n at most PGSIZE).
VASub(va, n) ==
    IF va.off >= n THEN VA(va.pn, va.off - n)
    ELSE VA((va.pn + NPAGES - 1) % NPAGES, va.off + PGSIZE - n)

\* a <= b, of addresses.
VALeq(a, b) == a.pn < b.pn \/ (a.pn = b.pn /\ a.off <= b.off)

\* A byte address given as a number.
AddrVA(n) == VA(n \div PGSIZE, n % PGSIZE)

ENVX(envid) == envid % NENV
Generation(envid) == envid \div NENV

\* The kernel's memory state as one record, so that the helpers compose.
K == [envs |-> envs, pgdir |-> pgdir, ptes |-> ptes, pp_ref |-> pp_ref,
      free |-> page_free_list]

Min(S) == CHOOSE x \in S : \A y \in S : x <= y

----------------------------------------------------------------------------
\* Physical page allocator and address-space primitives (kern/pmap.c).

\* page_free: return a frame to the free pool.
page_free(k, pp) == [k EXCEPT !.free = @ \cup {pp}]

\* page_decref: drop one reference, free the frame when the count reaches 0.
page_decref(k, pp) ==
    LET n == (k.pp_ref[pp] + PP_REF_MOD - 1) % PP_REF_MOD
        k1 == [k EXCEPT !.pp_ref[pp] = n]
    IN IF n = 0 THEN page_free(k1, pp) ELSE k1

\* page_alloc: take a frame off the free pool; its refcount is 0.
page_alloc(k) ==
    IF k.free = {} THEN [r |-> 0 - E_NO_MEM, pp |-> 0, k |-> k]
    ELSE LET pp == Min(k.free)
         IN [r |-> 0, pp |-> pp,
             k |-> [k EXCEPT !.free = @ \ {pp}, !.pp_ref[pp] = 0]]

\* Whether a page table covers page pn in slot e's directory.  The kernel
\* region, at and above UTOP, is covered in every directory.
HasPT(k, e, pn) == pn >= UTOP_PN \/ k.pgdir[e][PDX(pn)] # 0

\* pgdir_walk: the PTE pointer for pn (ok = non-NULL), allocating the page
\* table when create is set.
pgdir_walk(k, e, pn, create) ==
    IF HasPT(k, e, pn) THEN [ok |-> TRUE, k |-> k]
    ELSE IF ~create THEN [ok |-> FALSE, k |-> k]
    ELSE LET a == page_alloc(k)
         IN IF a.r < 0 THEN [ok |-> FALSE, k |-> k]
            ELSE [ok |-> TRUE,
                  k |-> [a.k EXCEPT !.pp_ref[a.pp] = 1,
                                    !.pgdir[e][PDX(pn)] = a.pp]]

\* page_lookup: pp is the frame mapped at pn (0 = NULL), pte tells whether
\* the PTE pointer stored for the caller is non-NULL.
page_lookup(k, e, pn) ==
    IF ~HasPT(k, e, pn) THEN [pp |-> 0, pte |-> FALSE, val |-> NoPTE]
    ELSE IF PTE_P \cap k.ptes[e][pn].perm = {}
         THEN [pp |-> 0, pte |-> TRUE, val |-> k.ptes[e][pn]]
         ELSE [pp |-> k.ptes[e][pn].pa, pte |-> TRUE, val |-> k.ptes[e][pn]]

\* page_remove: unmap pn, dropping the frame's reference.
page_remove(k, e, pn) ==
    LET l == page_lookup(k, e, pn)
    IN IF l.pp = 0 THEN k
       ELSE LET k1 == IF l.pp \in DOMAIN k.pp_ref THEN page_decref(k, l.pp)
                      ELSE k
            IN [k1 EXCEPT !.ptes[e][pn] = NoPTE]

\* page_insert: map frame pp at pn with perm | PTE_P.
page_insert(k, e, pp, pn, perm) ==
    LET w == pgdir_walk(k, e, pn, TRUE)
    IN IF ~w.ok THEN [r |-> 0 - E_NO_MEM, k |-> k]
       ELSE LET k1 == [w.k EXCEPT !.pp_ref[pp] = (@ + 1) % PP_REF_MOD]
                k2 == IF PTE_P \cap k1.ptes[e][pn].perm # {}
                      THEN page_remove(k1, e, pn) ELSE k1
            IN [r |-> 0,
                k |-> [k2 EXCEPT !.ptes[e][pn] =
                                    [pa |-> pp, perm |-> perm \cup PTE_P]]]

\* The PTE of page pn in slot e's address space.
PteOf(k, e, pn) == IF pn \in ModelPNs THEN k.ptes[e][pn] ELSE NoPTE

\* user_mem_check: whether every page of [va, va + len) is below UTOP and
\* mapped in slot e with all the bits of perm (len at most PGSIZE).
user_mem_check(k, e, va, len, perm) ==
    \A pn \in {va.pn} \cup (IF va.off + len > PGSIZE THEN {va.pn + 1}
                             ELSE {}) :
       pn < UTOP_PN /\ perm \subseteq PteOf(k, e, pn).perm

----------------------------------------------------------------------------
\* Environment table (kern/env.c).

\* An environment record.  Of the saved trap frame env_tf it keeps eax, eip,
\* esp, cs and eflags, with the values env_alloc gives them.
FreeEnv(id) ==
    [env_id |-> id, env_parent_id |-> 0, env_status |-> ENV_FREE,
     env_pgdir |-> 0, env_pgfault_upcall |-> 0, reg_eax |-> 0,
     tf_eip |-> NULL, tf_esp |-> USTACKTOP, tf_cs |-> GD_UT_3,
     tf_eflags |-> FL_IF,
     env_ipc_recving |-> FALSE, env_ipc_dstva |-> NULL, env_ipc_from |-> 0,
     env_ipc_value |-> 0, env_ipc_perm |-> {}]

\* Whether slot e is slot cur or descends from it along the parent_id chain.
RECURSIVE IsDescendant(_, _, _, _)
IsDescendant(k, cur, e, fuel) ==
    \/ e = cur
    \/ /\ fuel > 0
       /\ k.envs[e].env_parent_id # 0
       /\ LET p == ENVX(k.envs[e].env_parent_id)
          IN /\ k.envs[p].env_status # ENV_FREE
             /\ k.envs[p].env_id = k.envs[e].env_parent_id
             /\ IsDescendant(k, cur, p, fuel - 1)

\* A lookup by the index alone.
envid2env_byIndex(k, cur, envid, checkperm) ==
    IF envid = 0 THEN [r |-> 0, e |-> cur]
    ELSE LET e == ENVX(envid)
         IN IF k.envs[e].env_status = ENV_FREE
            THEN [r |-> 0 - E_BAD_ENV, e |-> NoEnv]
            ELSE IF checkperm /\ ~IsDescendant(k, cur, e, NENV)
            THEN [r |-> 0 - E_BAD_ENV, e |-> NoEnv]
            ELSE [r |-> 0, e |-> e]

\* envid2env: resolve an id to a slot; 0 names the current environment.
envid2env(k, cur, envid, checkperm) ==
    IF envid = 0 THEN [r |-> 0, e |-> cur]
    ELSE LET e == ENVX(envid)
         IN IF k.envs[e].env_status = ENV_FREE \/ k.envs[e].env_id # envid
            THEN [r |-> 0 - E_BAD_ENV, e |-> NoEnv]
            ELSE IF checkperm /\ ~IsDescendant(k, cur, e, NENV)
            THEN [r |-> 0 - E_BAD_ENV, e |-> NoEnv]
            ELSE [r |-> 0, e |-> e]

FreeSlots(k) == {s \in Slots : k.envs[s].env_status = ENV_FREE}

\* The generation after g.
NextGeneration(g) == IF g >= MaxGen THEN 1 ELSE g + 1

\* env_alloc: take the first free slot, bump its generation, give it a
\* fresh page directory.
env_alloc(k, parent_id) ==
    IF FreeSlots(k) = {} THEN [r |-> 0 - E_NO_FREE_ENV, e |-> NoEnv, k |-> k]
    ELSE LET e == Min(FreeSlots(k))
             a == page_alloc(k)
         IN IF a.r < 0 THEN [r |-> 0 - E_NO_MEM, e |-> NoEnv, k |-> k]
            ELSE LET id == NextGeneration(Generation(k.envs[e].env_id))
                                 * NENV + e
                 IN [r |-> 0, e |-> e,
                     k |-> [a.k EXCEPT
                              !.pp_ref[a.pp] = 1,
                              !.envs[e] = [FreeEnv(id) EXCEPT
                                  !.env_parent_id = parent_id,
                                  !.env_status = ENV_NOT_RUNNABLE,
                                  !.env_pgdir = a.pp]]]

RECURSIVE RemoveAll(_, _, _)
RemoveAll(k, e, pns) ==
    IF pns = {} THEN k
    ELSE LET pn == Min(pns)
         IN RemoveAll(page_remove(k, e, pn), e, pns \ {pn})

RECURSIVE FreePTs(_, _, _)
FreePTs(k, e, pdxs) ==
    IF pdxs = {} THEN k
    ELSE LET x == Min(pdxs)
             k1 == IF k.pgdir[e][x] = 0 THEN k
                   ELSE page_decref([k EXCEPT !.pgdir[e][x] = 0], k.pgdir[e][x])
         IN FreePTs(k1, e, pdxs \ {x})

\* env_free: unmap every user page, free the page tables and the
\* directory, mark the slot free.
env_free(k, e) ==
    LET k1 == RemoveAll(k, e, UserPNs)
        k2 == FreePTs(k1, e, UserPDXs)
        k3 == page_decref(k2, k.envs[e].env_pgdir)
    IN [k3 EXCEPT !.envs[e].env_status = ENV_FREE, !.envs[e].env_pgdir = 0]

----------------------------------------------------------------------------
\* Scheduler (kern/sched.c).

\* The status the loop reads at index i.  An index past the table reads
\* whatever lies behind it: oob tells whether that reads as ENV_RUNNABLE.
StatusAt(es, i, oob) ==
    IF i < NENV THEN es[i].env_status
    ELSE IF oob THEN ENV_RUNNABLE ELSE ENV_FREE

RECURSIVE SchedLoop(_, _, _, _, _)
SchedLoop(es, i, k, oob, fuel) ==
    IF fuel = 0 THEN [kind |-> "hang", e |-> NoEnv]
    ELSE IF StatusAt(es, i, oob) = ENV_RUNNABLE
    THEN IF i < NENV THEN [kind |-> "run", e |-> i]
                     ELSE [kind |-> "crash", e |-> NoEnv]
    ELSE LET i1 == i + 1
             i2 == IF i1 % NENV = 0 THEN 1 ELSE i1
         IN IF i2 = k + 1
            THEN IF es[0].env_status = ENV_RUNNABLE
                 THEN [kind |-> "run", e |-> 0]
                 ELSE [kind |-> "monitor", e |-> NoEnv]
            ELSE SchedLoop(es, i2, k, oob, fuel - 1)

\* sched_yield: the environment to run next, or the way the kernel stops.
\* The loop visits at most 2*NENV indices before it repeats itself.
sched_yield(es, cur, oob) ==
    LET k == IF cur # NoEnv THEN ENVX(es[cur].env_id) ELSE 0
    IN SchedLoop(es, k + 1, k, oob, 3 * NENV)

----------------------------------------------------------------------------
\* System calls (kern/syscall.c).  Each yields how the call leaves the
\* kernel (ctl: "ret" returns r to the caller, "sched" ends in sched_yield,
\* "panic" is a fault taken in kernel mode), the return value r, the memory
\* state k and the value of curenv.

Returns(k, cur, r) == [ctl |-> "ret", r |-> r, k |-> k, cur |-> cur]
Yields(k, cur) == [ctl |-> "sched", r |-> 0, k |-> k, cur |-> cur]
Panics(k, cur) == [ctl |-> "panic", r |-> 0, k |-> k, cur |-> cur]

\* The test on perm at lines 318 and 382.
BadPerm(perm) ==
    (perm \cap (PTE_U \cup PTE_P)) = {} \/ (perm \ PTE_USER) # {}

\* The test on a user address at lines 314, 377-378 and 423.
\* A test of the alignment alone.
BadVA_alignOnly(va) == PGOFF(va) # 0

BadVA(va) == AboveUTOP(va) \/ PGOFF(va) # 0

\* A destroy that skips the permission check of the lookup.
sys_env_destroy_open(k, cur, envid) ==
    LET l == envid2env(k, cur, envid, FALSE)
    IN IF l.r < 0 THEN Returns(k, cur, l.r)
       ELSE IF l.e = cur THEN Yields(env_free(k, l.e), NoEnv)
       ELSE Returns(env_free(k, l.e), cur, 0)

sys_env_destroy(k, cur, envid) ==
    LET l == envid2env(k, cur, envid, TRUE)
    IN IF l.r < 0 THEN Returns(k, cur, l.r)
       ELSE IF l.e = cur THEN Yields(env_free(k, l.e), NoEnv)
       ELSE Returns(env_free(k, l.e), cur, 0)

sys_yield(k, cur) == Yields(k, cur)

\* The saved trap frame of a record.
TfOf(env) ==
    [reg_eax |-> env.reg_eax, tf_eip |-> env.tf_eip, tf_esp |-> env.tf_esp,
     tf_cs |-> env.tf_cs, tf_eflags |-> env.tf_eflags]

\* The record with this trap frame.
WithTf(env, tf) ==
    [env EXCEPT !.reg_eax = tf.reg_eax, !.tf_eip = tf.tf_eip,
                !.tf_esp = tf.tf_esp, !.tf_cs = tf.tf_cs,
                !.tf_eflags = tf.tf_eflags]

\* A fork that leaves the child the frame env_alloc gave it.
sys_exofork_noCopy(k, cur) ==
    LET a == env_alloc(k, k.envs[cur].env_id)
    IN IF a.r < 0 THEN Returns(k, cur, a.r)
       ELSE Returns([a.k EXCEPT !.envs[a.e].env_status = ENV_NOT_RUNNABLE,
                                !.envs[a.e].reg_eax = 0],
                    cur, a.k.envs[a.e].env_id)

sys_exofork(k, cur) ==
    LET a == env_alloc(k, k.envs[cur].env_id)
    IN IF a.r < 0 THEN Returns(k, cur, a.r)
       ELSE Returns([a.k EXCEPT
                       !.envs[a.e] =
                          [WithTf(@, TfOf(k.envs[cur])) EXCEPT
                              !.env_status = ENV_NOT_RUNNABLE,
                              !.reg_eax = 0]],
                    cur, a.k.envs[a.e].env_id)

\* A status change that skips the permission check of the lookup.
sys_env_set_status_open(k, cur, envid, status) ==
    IF status # ENV_RUNNABLE /\ status # ENV_NOT_RUNNABLE
    THEN Returns(k, cur, 0 - E_INVAL)
    ELSE LET l == envid2env(k, cur, envid, FALSE)
         IN IF l.r < 0 THEN Returns(k, cur, l.r)
            ELSE Returns([k EXCEPT !.envs[l.e].env_status = status], cur, 0)

sys_env_set_status(k, cur, envid, status) ==
    IF status # ENV_RUNNABLE /\ status # ENV_NOT_RUNNABLE
    THEN Returns(k, cur, 0 - E_INVAL)
    ELSE LET l == envid2env(k, cur, envid, TRUE)
         IN IF l.r < 0 THEN Returns(k, cur, l.r)
            ELSE Returns([k EXCEPT !.envs[l.e].env_status = status], cur, 0)

\* tf is the frame read through the user's pointer; tf.fault tells that the
\* pointer cannot be read.
sys_env_set_trapframe(k, cur, envid, tf) ==
    LET l == envid2env(k, cur, envid, TRUE)
    IN IF l.r < 0 THEN Returns(k, cur, l.r)
       ELSE IF tf.fault THEN Panics(k, cur)
       ELSE Returns([k EXCEPT
                       !.envs[l.e] =
                          [WithTf(@, tf) EXCEPT
                              !.tf_cs = GD_UT_3,
                              !.tf_eflags = @ \cup FL_IF]],
                    cur, 0)

sys_env_set_pgfault_upcall(k, cur, envid, func) ==
    LET l == envid2env(k, cur, envid, TRUE)
    IN IF l.r < 0 THEN Returns(k, cur, l.r)
       ELSE Returns([k EXCEPT !.envs[l.e].env_pgfault_upcall = func], cur, 0)

\* An allocation that always maps the page writable.
sys_page_alloc_writable(k, cur, envid, va, perm) ==
    IF BadVA(va) THEN Returns(k, cur, 0 - E_INVAL)
    ELSE IF BadPerm(perm) THEN Returns(k, cur, 0 - E_INVAL)
    ELSE LET l == envid2env(k, cur, envid, TRUE)
         IN IF l.r < 0 THEN Returns(k, cur, l.r)
            ELSE LET a == page_alloc(k)
                 IN IF a.r < 0 THEN Returns(k, cur, a.r)
                    ELSE LET i == page_insert(a.k, l.e, a.pp, va.pn,
                                              perm \cup PTE_W)
                         IN IF i.r < 0
                            THEN Returns(page_decref(a.k, a.pp), cur, i.r)
                            ELSE Returns(i.k, cur, 0)

sys_page_alloc(k, cur, envid, va, perm) ==
    IF BadVA(va) THEN Returns(k, cur, 0 - E_INVAL)
    ELSE IF BadPerm(perm) THEN Returns(k, cur, 0 - E_INVAL)
    ELSE LET l == envid2env(k, cur, envid, TRUE)
         IN IF l.r < 0 THEN Returns(k, cur, l.r)
            ELSE LET a == page_alloc(k)
                 IN IF a.r < 0 THEN Returns(k, cur, a.r)
                    ELSE LET i == page_insert(a.k, l.e, a.pp, va.pn, perm)
                         IN IF i.r < 0
                            THEN Returns(page_decref(a.k, a.pp), cur, i.r)
                            ELSE Returns(i.k, cur, 0)

\* page_insert with pp == NULL: the reference count it bumps is the word at
\* address 8 of the caller's page 0, and the frame it maps is page2pa(NULL),
\* here the frame g.
page_insert_null(k, cur, e, g, pn, perm) ==
    LET w == pgdir_walk(k, e, pn, TRUE)
    IN IF ~w.ok THEN Returns(k, cur, 0 - E_NO_MEM)
       ELSE IF PTE_W \cap k.ptes[cur][0].perm = {} THEN Panics(k, cur)
       ELSE LET k2 == IF PTE_P \cap w.k.ptes[e][pn].perm # {}
                      THEN page_remove(w.k, e, pn) ELSE w.k
            IN Returns([k2 EXCEPT !.ptes[e][pn] =
                                     [pa |-> g, perm |-> perm \cup PTE_P]],
                       cur, 0)

\* Line 392 reads *pt.  When page_lookup found no page table pt is NULL and
\* the read is of address 0 in the caller's address space: a fault in the
\* kernel when the caller has no page 0, and otherwise the word the caller
\* keeps there (ub.word), with pp == NULL (ub.frame stands for page2pa(NULL)).
sys_page_map(k, cur, srcenvid, srcva, dstenvid, dstva, perm, ub) ==
    IF BadVA(srcva) \/ BadVA(dstva) THEN Returns(k, cur, 0 - E_INVAL)
    ELSE IF BadPerm(perm) THEN Returns(k, cur, 0 - E_INVAL)
    ELSE LET s == envid2env(k, cur, srcenvid, TRUE)
             d == envid2env(k, cur, dstenvid, TRUE)
         IN IF s.r < 0 THEN Returns(k, cur, s.r)
            ELSE IF d.r < 0 THEN Returns(k, cur, d.r)
            ELSE LET l == page_lookup(k, s.e, srcva.pn)
                 IN IF ~l.pte /\ PTE_P \cap k.ptes[cur][0].perm = {}
                    THEN Panics(k, cur)
                    ELSE LET pt == IF l.pte THEN l.val.perm ELSE ub.word
                         IN IF pt \cap PTE_P = {}
                            THEN Returns(k, cur, 0 - E_INVAL)
                            ELSE IF perm \cap PTE_W # {} /\ pt \cap PTE_W = {}
                            THEN Returns(k, cur, 0 - E_INVAL)
                            ELSE IF ~l.pte
                            THEN page_insert_null(k, cur, d.e, ub.frame,
                                                  dstva.pn, perm)
                            ELSE LET i == page_insert(k, d.e, l.pp,
                                                      dstva.pn, perm)
                                 IN Returns(i.k, cur, i.r)

\* An unmap that ignores envid and unmaps in the caller's address space.
sys_page_unmap_self(k, cur, envid, va) ==
    IF BadVA(va) THEN Returns(k, cur, 0 - E_INVAL)
    ELSE LET l == envid2env(k, cur, envid, TRUE)
         IN IF l.r < 0 THEN Returns(k, cur, l.r)
            ELSE Returns(page_remove(k, cur, va.pn), cur, 0)

sys_page_unmap(k, cur, envid, va) ==
    IF BadVA(va) THEN Returns(k, cur, 0 - E_INVAL)
    ELSE LET l == envid2env(k, cur, envid, TRUE)
         IN IF l.r < 0 THEN Returns(k, cur, l.r)
            ELSE Returns(page_remove(k, l.e, va.pn), cur, 0)

\* A delivery that also stamps the value into the sender's record.
Deliver_both(k, cur, d, value) ==
    [k EXCEPT !.envs[d].env_ipc_recving = FALSE,
              !.envs[d].env_ipc_from = k.envs[cur].env_id,
              !.envs[d].env_ipc_value = value,
              !.envs[d].reg_eax = 0,
              !.envs[d].env_status = ENV_RUNNABLE,
              !.envs[cur].env_ipc_value = value]

\* A delivery that wakes the receiver without the value.
Deliver_noValue(k, cur, d, value) ==
    [k EXCEPT !.envs[d].env_ipc_recving = FALSE,
              !.envs[d].env_ipc_from = k.envs[cur].env_id,
              !.envs[d].reg_eax = 0,
              !.envs[d].env_status = ENV_RUNNABLE]

\* Lines 520-525: deliver the message to slot d.
Deliver(k, cur, d, value) ==
    [k EXCEPT !.envs[d].env_ipc_recving = FALSE,
              !.envs[d].env_ipc_from = k.envs[cur].env_id,
              !.envs[d].env_ipc_value = value,
              !.envs[d].reg_eax = 0,
              !.envs[d].env_status = ENV_RUNNABLE]

\* A test that looks at the sender field only.
NotRecving_fromOnly(env) == env.env_ipc_from # 0

\* The test at line 488.
NotRecving(env) == ~env.env_ipc_recving \/ env.env_ipc_from # 0

\* The test on perm at line 498.
BadIpcPerm(perm) ==
    PTE_U \cap perm = {} \/ PTE_P \cap perm = {} \/ (perm \ PTE_USER) # {}

\* A send that closes the rendezvous before it maps the page.
sys_ipc_try_send_early(k, cur, envid, value, srcva, perm) ==
    LET t == envid2env(k, cur, envid, FALSE)
    IN IF t.r < 0 THEN Returns(k, cur, t.r)
       ELSE IF NotRecving(k.envs[t.e])
       THEN Returns(k, cur, 0 - E_IPC_NOT_RECV)
       ELSE IF ~AboveUTOP(srcva) /\ PGOFF(srcva) # 0
       THEN Returns(k, cur, 0 - E_INVAL)
       ELSE IF ~AboveUTOP(srcva) /\ BadIpcPerm(perm)
       THEN Returns(k, cur, 0 - E_INVAL)
       ELSE LET l == IF ~AboveUTOP(srcva) THEN page_lookup(k, cur, srcva.pn)
                     ELSE [pp |-> 0, pte |-> FALSE, val |-> NoPTE]
                k0 == [k EXCEPT !.envs[t.e].env_ipc_recving = FALSE]
            IN IF ~AboveUTOP(srcva) /\ l.pp = 0
               THEN Returns(k, cur, 0 - E_INVAL)
               ELSE IF ~AboveUTOP(srcva) /\ PTE_W \cap l.val.perm = {}
                       /\ perm \cap PTE_W # {}
               THEN Returns(k, cur, 0 - E_INVAL)
               ELSE IF ~AboveUTOP(srcva) /\ k.envs[t.e].env_ipc_dstva # NULL
               THEN LET i == page_insert(k0, t.e, l.pp,
                                         k.envs[t.e].env_ipc_dstva.pn, perm)
                    IN IF i.r < 0 THEN Returns(k0, cur, i.r)
                       ELSE Returns(
                              Deliver([i.k EXCEPT
                                         !.envs[t.e].env_ipc_perm = perm],
                                      cur, t.e, value), cur, 0)
               ELSE Returns(
                      Deliver([k EXCEPT !.envs[t.e].env_ipc_perm = {}],
                              cur, t.e, value), cur, 0)

sys_ipc_try_send(k, cur, envid, value, srcva, perm) ==
    LET t == envid2env(k, cur, envid, FALSE)
    IN IF t.r < 0 THEN Returns(k, cur, t.r)
       ELSE IF NotRecving(k.envs[t.e])
       THEN Returns(k, cur, 0 - E_IPC_NOT_RECV)
       ELSE IF ~AboveUTOP(srcva) /\ PGOFF(srcva) # 0
       THEN Returns(k, cur, 0 - E_INVAL)
       ELSE IF ~AboveUTOP(srcva) /\ BadIpcPerm(perm)
       THEN Returns(k, cur, 0 - E_INVAL)
       ELSE LET l == IF ~AboveUTOP(srcva) THEN page_lookup(k, cur, srcva.pn)
                     ELSE [pp |-> 0, pte |-> FALSE, val |-> NoPTE]
            IN IF ~AboveUTOP(srcva) /\ l.pp = 0
               THEN Returns(k, cur, 0 - E_INVAL)
               ELSE IF ~AboveUTOP(srcva) /\ PTE_W \cap l.val.perm = {}
                       /\ perm \cap PTE_W # {}
               THEN Returns(k, cur, 0 - E_INVAL)
               ELSE IF ~AboveUTOP(srcva) /\ k.envs[t.e].env_ipc_dstva # NULL
               THEN LET i == page_insert(k, t.e, l.pp,
                                         k.envs[t.e].env_ipc_dstva.pn, perm)
                    IN IF i.r < 0 THEN Returns(k, cur, i.r)
                       ELSE Returns(
                              Deliver([i.k EXCEPT
                                         !.envs[t.e].env_ipc_perm = perm],
                                      cur, t.e, value), cur, 0)
               ELSE Returns(
                      Deliver([k EXCEPT !.envs[t.e].env_ipc_perm = {}],
                              cur, t.e, value), cur, 0)

\* A sys_ipc_recv that leaves its caller ENV_RUNNABLE.
sys_ipc_recv_awake(k, cur, dstva) ==
    IF ~AboveUTOP(dstva) /\ PGOFF(dstva) # 0
    THEN Returns(k, cur, 0 - E_INVAL)
    ELSE Yields([k EXCEPT
                   !.envs[cur].env_ipc_dstva =
                       IF ~AboveUTOP(dstva) THEN dstva ELSE NULL,
                   !.envs[cur].env_ipc_recving = TRUE,
                   !.envs[cur].env_ipc_from = 0,
                   !.envs[cur].env_ipc_value = 0,
                   !.envs[cur].env_ipc_perm = {},
                   !.envs[cur].reg_eax = 0],
                cur)

sys_ipc_recv(k, cur, dstva) ==
    IF ~AboveUTOP(dstva) /\ PGOFF(dstva) # 0
    THEN Returns(k, cur, 0 - E_INVAL)
    ELSE Yields([k EXCEPT
                   !.envs[cur].env_ipc_dstva =
                       IF ~AboveUTOP(dstva) THEN dstva ELSE NULL,
                   !.envs[cur].env_ipc_recving = TRUE,
                   !.envs[cur].env_ipc_from = 0,
                   !.envs[cur].env_ipc_value = 0,
                   !.envs[cur].env_ipc_perm = {},
                   !.envs[cur].env_status = ENV_NOT_RUNNABLE,
                   !.envs[cur].reg_eax = 0],
                cur)

----------------------------------------------------------------------------
\* Inputs of the calls.

GoodVAs == {NULL, VA(ProgPN, 0)}
\* An address that is not page-aligned, and UTOP.
BadVAs == {VA(ProgPN, 4), UTOP}
VAInputs == GoodVAs \cup BadVAs

PermInputs ==
    { PTE_U \cup PTE_P, PTE_U \cup PTE_P \cup PTE_W,
      PTE_U \cup PTE_P \cup PTE_COW,
      PTE_U \cup PTE_P \cup PTE_W \cup PTE_COW, PTE_U, {},
      PTE_U \cup PTE_P \cup PTE_PWT }

\* 0, the id each slot holds or would hold first, and the id it held before.
IdInputs ==
    {0} \cup
    UNION { { NENV * (IF Generation(envs[s].env_id) = 0 THEN 1
                      ELSE Generation(envs[s].env_id)) + s,
              NENV * (IF Generation(envs[s].env_id) <= 1 THEN 1
                      ELSE Generation(envs[s].env_id) - 1) + s }
            : s \in Slots }

StatusInputs == {ENV_RUNNABLE, ENV_NOT_RUNNABLE, ENV_FREE}
IpcValues == {42}
UpcallInputs == {0, 1}
\* A pointer that cannot be read, and a frame with the kernel's code
\* segment, interrupts off and I/O privilege level 3.
TfInputs ==
    { [fault |-> TRUE, reg_eax |-> 0, tf_eip |-> NULL, tf_esp |-> NULL,
       tf_cs |-> GD_KT, tf_eflags |-> {}],
      [fault |-> FALSE, reg_eax |-> 1, tf_eip |-> VA(ProgPN, 64),
       tf_esp |-> VA(ProgPN, 128), tf_cs |-> GD_KT,
       tf_eflags |-> FL_IOPL_MASK] }

GoodPerm == PTE_U \cup PTE_P
\* An address with a permission: every permission at each tracked address,
\* and each bad address with a good permission.
VaPermInputs == (GoodVAs \X PermInputs) \cup (BadVAs \X {GoodPerm})

\* sys_page_map's addresses and permission: every permission at every
\* combination of tracked addresses, and each bad address in either place
\* with a good permission.
PageMapArgs ==
    (GoodVAs \X GoodVAs \X PermInputs)
      \cup {<<b, NULL, GoodPerm>> : b \in BadVAs}
      \cup {<<NULL, b, GoodPerm>> : b \in BadVAs}
\* One of the two environments is the caller itself.
PageMapIds == {<<0, i>> : i \in IdInputs} \cup {<<i, 0>> : i \in IdInputs}

\* What a read through a NULL PTE pointer yields: the word at address 0,
\* and the frame page2pa(NULL).
NoUB == [word |-> {}, frame |-> 0]
UBChoices == [word : {{}, PTE_P, PTE_P \cup PTE_W}, frame : Frames]
\* Whether sys_page_map on these arguments reads through a NULL pointer a
\* word the caller keeps at address 0.
NullDeref(srcenvid, srcva) ==
    /\ ~BadVA(srcva)
    /\ PTE_P \cap ptes[curenv][0].perm # {}
    /\ envid2env(K, curenv, srcenvid, TRUE).r = 0
    /\ ~HasPT(K, envid2env(K, curenv, srcenvid, TRUE).e, srcva.pn)

\* Whether the index the scheduler starts from lies past the table.
OobChoices == IF curenv = NENV - 1 THEN BOOLEAN ELSE {FALSE}

----------------------------------------------------------------------------
\* Trap tail (trap, kern/trap.c) and the actions.

\* The address and the permission a system call was given.
Arg(va, perm) == [va |-> va, perm |-> perm]
NoArg == Arg(NULL, {})

\* The user trap frame a page fault leaves on the exception stack, and the
\* address va it is written at.
NoUtf ==
    [va |-> NULL, utf_fault_va |-> NULL, utf_err |-> 0, utf_eax |-> 0,
     utf_eip |-> NULL, utf_eflags |-> {}, utf_esp |-> NULL]

\* What the processor reports of a trap that is neither a system call nor
\* the timer: its number, the code segment and stack pointer it interrupted,
\* the faulting address (cr2) and the error code.
TrapTf(trapno, cs, esp, fault_va, err) ==
    [tf_trapno |-> trapno, tf_cs |-> cs, tf_esp |-> esp, cr2 |-> fault_va,
     tf_err |-> err]
NoTrapTf == TrapTf(0, GD_UT_3, NULL, NULL, 0)

\* The machine between two traps: the kernel's data, the running
\* environment, whether the machine still runs user code, and the last trap
\* (its kind, its caller, how it ended, the value it returned, unless it
\* returned an error the address and permission it was given, what the
\* processor reported of it, and the user trap frame it wrote).
Machine(k, cur, ks, lst) ==
    [k |-> k, curenv |-> cur, kstate |-> ks, last |-> lst]

Schedule(k, cur, oob, lst) ==
    LET s == sched_yield(k.envs, cur, oob)
    IN IF s.kind = "run" THEN Machine(k, s.e, "user", lst)
       ELSE Machine(k, cur, s.kind, lst)

\* An end of trap() that runs the current environment whatever its status.
trap_return_unchecked(k, cur, oob, lst) ==
    Machine(k, cur, "user", lst)

\* The end of trap() (lines 227-230): the current environment runs on if it
\* is still ENV_RUNNABLE; otherwise the scheduler picks.
trap_return(k, cur, oob, lst) ==
    IF k.envs[cur].env_status = ENV_RUNNABLE
    THEN Machine(k, cur, "user", lst)
    ELSE Schedule(k, cur, oob, lst)

\* trap_dispatch's T_SYSCALL case followed by the end of trap(): the return
\* value goes to the caller's saved eax.
trap(k, cur, op, arg, res, oob) ==
    LET lst == [op |-> op, caller |-> cur, ctl |-> res.ctl, r |-> res.r,
                arg |-> IF res.ctl = "ret" /\ res.r < 0 THEN NoArg ELSE arg,
                tf |-> NoTrapTf, utf |-> NoUtf]
    IN IF res.ctl = "panic" THEN Machine(res.k, cur, "panic", lst)
       ELSE IF res.ctl = "ret"
       THEN trap_return([res.k EXCEPT !.envs[cur].reg_eax = res.r], cur, oob,
                        lst)
       ELSE Schedule(res.k, res.cur, oob, lst)

\* trap_dispatch's IRQ_OFFSET+IRQ_TIMER case: sched_yield.
timer(k, cur, oob) ==
    Schedule(k, cur, oob,
             [op |-> "timer", caller |-> cur, ctl |-> "sched", r |-> 0,
              arg |-> NoArg, tf |-> NoTrapTf, utf |-> NoUtf])

\* env_destroy(curenv): free the environment and call the scheduler.
Destroyed(k, cur) ==
    [ctl |-> "sched", r |-> 0, k |-> env_free(k, cur), cur |-> NoEnv,
     utf |-> NoUtf]

\* Lines 284-290: where the user trap frame goes, given the trap-time esp.
UtfVa(esp) ==
    IF VALeq(VASub(UXSTACKTOP, PGSIZE), esp) /\ VALeq(esp, UXSTACKTOP)
    THEN VASub(VASub(esp, 4), UTF_SIZE)
    ELSE VASub(UXSTACKTOP, UTF_SIZE)

\* A handler that resumes the environment where it faulted.
page_fault_handler_noUpcall(k, cur, cs, fault_va, err) ==
    IF cs = GD_KT THEN Panics(k, cur) @@ [utf |-> NoUtf]
    ELSE IF k.envs[cur].env_pgfault_upcall = 0 THEN Destroyed(k, cur)
    ELSE LET e == k.envs[cur]
             utf_va == UtfVa(e.tf_esp)
         IN IF ~user_mem_check(k, cur, utf_va, UTF_SIZE,
                               PTE_P \cup PTE_U \cup PTE_W)
            THEN Destroyed(k, cur)
            ELSE [ctl |-> "run", r |-> 0, cur |-> cur,
                  k |-> [k EXCEPT !.envs[cur].tf_esp = utf_va],
                  utf |-> [va |-> utf_va, utf_fault_va |-> fault_va,
                           utf_err |-> err, utf_eax |-> e.reg_eax,
                           utf_eip |-> e.tf_eip, utf_eflags |-> e.tf_eflags,
                           utf_esp |-> e.tf_esp]]

\* page_fault_handler, for a fault at fault_va with error code err, taken
\* with code segment cs.  ctl "run" is env_run(curenv).
page_fault_handler(k, cur, cs, fault_va, err) ==
    IF cs = GD_KT THEN Panics(k, cur) @@ [utf |-> NoUtf]
    ELSE IF k.envs[cur].env_pgfault_upcall = 0 THEN Destroyed(k, cur)
    ELSE LET e == k.envs[cur]
             utf_va == UtfVa(e.tf_esp)
         IN IF ~user_mem_check(k, cur, utf_va, UTF_SIZE,
                               PTE_P \cup PTE_U \cup PTE_W)
            THEN Destroyed(k, cur)
            ELSE [ctl |-> "run", r |-> 0, cur |-> cur,
                  k |-> [k EXCEPT
                           !.envs[cur].tf_esp = utf_va,
                           !.envs[cur].tf_eip =
                               AddrVA(e.env_pgfault_upcall)],
                  utf |-> [va |-> utf_va, utf_fault_va |-> fault_va,
                           utf_err |-> err, utf_eax |-> e.reg_eax,
                           utf_eip |-> e.tf_eip, utf_eflags |-> e.tf_eflags,
                           utf_esp |-> e.tf_esp]]

\* A dispatch that destroys the current environment on every unexpected
\* trap, from the kernel too.
trap_dispatch_destroys(k, cur, cs, trapno, fault_va, err) ==
    IF trapno = T_PGFLT THEN page_fault_handler(k, cur, cs, fault_va, err)
    ELSE IF trapno \in {T_BRKPT, IRQ_OFFSET + IRQ_SPURIOUS}
    THEN [ctl |-> "back", r |-> 0, k |-> k, cur |-> cur, utf |-> NoUtf]
    ELSE Destroyed(k, cur)

\* trap_dispatch, but for T_SYSCALL and the timer: ctl "back" is its return
\* to trap().
trap_dispatch(k, cur, cs, trapno, fault_va, err) ==
    IF trapno = T_PGFLT THEN page_fault_handler(k, cur, cs, fault_va, err)
    ELSE IF trapno \in {T_BRKPT, IRQ_OFFSET + IRQ_SPURIOUS}
    THEN [ctl |-> "back", r |-> 0, k |-> k, cur |-> cur, utf |-> NoUtf]
    ELSE IF cs = GD_KT THEN Panics(k, cur) @@ [utf |-> NoUtf]
    ELSE Destroyed(k, cur)

\* trap() on a trap that is neither a system call nor the timer.  From user
\* mode the trap-time frame, here its esp, goes to the saved frame first
\* (line 216).
trap_other(k, cur, cs, trapno, esp, fault_va, err, oob) ==
    LET k0 == IF cs = GD_UT_3 THEN [k EXCEPT !.envs[cur].tf_esp = esp]
              ELSE k
        res == trap_dispatch(k0, cur, cs, trapno, fault_va, err)
        lst == [op |-> "trap", caller |-> cur, ctl |-> res.ctl, r |-> 0,
                arg |-> NoArg,
                tf |-> TrapTf(trapno, cs, esp, fault_va, err),
                utf |-> res.utf]
    IN IF res.ctl = "panic" THEN Machine(res.k, cur, "panic", lst)
       ELSE IF res.ctl = "run" THEN Machine(res.k, cur, "user", lst)
       ELSE IF res.ctl = "back" THEN trap_return(res.k, cur, oob, lst)
       ELSE Schedule(res.k, res.cur, oob, lst)

\* The slots sys_exofork filled that have not run since.
StillFresh(m) ==
    {s \in Slots :
        /\ m.k.envs[s].env_status # ENV_FREE
        /\ s \in fresh \/ m.k.envs[s].env_id # envs[s].env_id
        /\ ~(m.kstate = "user" /\ m.curenv = s)}

\* The state of the machine after a kernel entry.
InstallMachine(m) ==
    /\ fresh' = StillFresh(m)
    /\ envs' = m.k.envs
    /\ pgdir' = m.k.pgdir
    /\ ptes' = m.k.ptes
    /\ pp_ref' = m.k.pp_ref
    /\ page_free_list' = m.k.free
    /\ curenv' = m.curenv
    /\ kstate' = m.kstate
    /\ last' = m.last
    /\ e100' = e100
    /\ kstack' = kstack

\* What an environment executes of the user library (lib/ipc.c, lib/fork.c):
\* pc is its place in the library, "none" outside of it.
\* hpc is its place in the page fault handler, "none" outside of it, and
\* utf the user trap frame the handler was entered with; stores counts the
\* bytes its program wrote, the last one byte at page at; from and ret are
\* what its last ipc_recv stored and returned.
NoLib ==
    [pc |-> "none", hpc |-> "none", child |-> 0, ret |-> 0, sent |-> 0,
     stores |-> 0, at |-> 0, byte |-> 0, pn |-> 0, utf |-> NoUtf,
     to_env |-> 0, val |-> 0, pg |-> NULL, perm |-> {}, from |-> 0]

\* What the model keeps of a page's contents: the byte data that the
\* programs read and write, and the library's variable env (the slot of the
\* environment it points at, in the page of the program's data).
ZeroPage == [data |-> 0, env |-> 0]

\* The user side when no environment is in the library: mem is the
\* contents of each frame.
NoUser(k) ==
    [env |-> [s \in Slots |-> NoLib],
     mem |-> [f \in DOMAIN k.pp_ref |-> ZeroPage]]

\* The user side after a kernel entry: an environment that was destroyed
\* takes its place in the library with it.
Survive(u, k) ==
    [u EXCEPT !.env = [s \in Slots |->
                         IF \/ k.envs[s].env_status = ENV_FREE
                            \/ k.envs[s].env_id # envs[s].env_id
                         THEN NoLib ELSE u.env[s]]]

\* A kernel entry made outside of the library.
Install(m) ==
    /\ InstallMachine(m)
    /\ user' = Survive(user, m.k)

\* A kernel entry made by the library, which goes on as record u says with
\* the memory mem.
InstallUser(m, u, mem) ==
    /\ InstallMachine(m)
    /\ user' = Survive([env |-> [user.env EXCEPT ![curenv] = u],
                        mem |-> mem], m.k)
    /\ nsteps' = nsteps

InstallLib(m, u) == InstallUser(m, u, user.mem)

\* The value a system call left in the caller's eax.
Eax(m, cur) == m.k.envs[cur].reg_eax

Trap(op, arg, res, oob) ==
    /\ nsteps' = nsteps + 1
    /\ Install(trap(K, curenv, op, arg, res, oob))

InUser == kstate = "user" /\ nsteps < MaxSteps

SysEnvDestroy ==
    /\ InUser
    /\ \E envid \in IdInputs, oob \in OobChoices :
          Trap("sys_env_destroy", NoArg, sys_env_destroy(K, curenv, envid), oob)

SysYield ==
    /\ InUser
    /\ \E oob \in OobChoices : Trap("sys_yield", NoArg, sys_yield(K, curenv), oob)

SysExofork ==
    /\ InUser
    /\ \E oob \in OobChoices : Trap("sys_exofork", NoArg, sys_exofork(K, curenv), oob)

SysEnvSetStatus ==
    /\ InUser
    /\ \E envid \in IdInputs, status \in StatusInputs, oob \in OobChoices :
          Trap("sys_env_set_status", NoArg,
               sys_env_set_status(K, curenv, envid, status), oob)

SysEnvSetTrapframe ==
    /\ InUser
    /\ \E envid \in IdInputs, tf \in TfInputs, oob \in OobChoices :
          Trap("sys_env_set_trapframe", NoArg,
               sys_env_set_trapframe(K, curenv, envid, tf), oob)

SysEnvSetPgfaultUpcall ==
    /\ InUser
    /\ \E envid \in IdInputs, func \in UpcallInputs, oob \in OobChoices :
          Trap("sys_env_set_pgfault_upcall", NoArg,
               sys_env_set_pgfault_upcall(K, curenv, envid, func), oob)

SysPageAlloc ==
    /\ InUser
    /\ \E envid \in IdInputs, a \in VaPermInputs, oob \in OobChoices :
          Trap("sys_page_alloc", Arg(a[1], a[2]),
               sys_page_alloc(K, curenv, envid, a[1], a[2]), oob)

SysPageMap ==
    /\ InUser
    /\ \E ids \in PageMapIds, a \in PageMapArgs, oob \in OobChoices :
          \E ub \in IF NullDeref(ids[1], a[1]) THEN UBChoices ELSE {NoUB} :
             Trap("sys_page_map", Arg(a[2], a[3]),
                  sys_page_map(K, curenv, ids[1], a[1], ids[2], a[2],
                               a[3], ub), oob)

SysPageUnmap ==
    /\ InUser
    /\ \E envid \in IdInputs, va \in VAInputs, oob \in OobChoices :
          Trap("sys_page_unmap", NoArg, sys_page_unmap(K, curenv, envid, va), oob)

SysIpcTrySend ==
    /\ InUser
    /\ \E envid \in IdInputs, value \in IpcValues, a \in VaPermInputs,
          oob \in OobChoices :
          Trap("sys_ipc_try_send", Arg(a[1], a[2]),
               sys_ipc_try_send(K, curenv, envid, value, a[1], a[2]), oob)

SysIpcRecv ==
    /\ InUser
    /\ \E dstva \in VAInputs, oob \in OobChoices :
          Trap("sys_ipc_recv", Arg(dstva, {}),
               sys_ipc_recv(K, curenv, dstva), oob)

TimerIRQ ==
    /\ InUser
    /\ \E oob \in OobChoices :
          /\ nsteps' = nsteps + 1
          /\ Install(timer(K, curenv, oob))

----------------------------------------------------------------------------
\* Trap entry (kern/trapentry.S).  kstack is the kernel stack from the
\* processor's first push of a trap to the call of trap(), the word pushed
\* last first.  A word is kept with what it is (w) beside its value (v).

Word(w, v) == [w |-> w, v |-> v]
Push(stack, word) == <<word>> \o stack

\* The exceptions at which the processor pushes an error code: double
\* fault, invalid TSS, segment not present, stack fault, general protection,
\* page fault and alignment check.
HwErrorCode == {8, 10, 11, 12, 13, 14, 17}

T_ALIGN == 17

\* TRAPHANDLER(name, num): the stub pushes the trap number.
TRAPHANDLER(stack, num) == Push(stack, Word("trapno", num))

\* TRAPHANDLER_NOEC(name, num): the stub pushes 0 in place of the error
\* code, then the trap number.
TRAPHANDLER_NOEC(stack, num) ==
    Push(Push(stack, Word("err", 0)), Word("trapno", num))

\* Lines 41-77: the stubs, each with its trap number and the macro that
\* defines it.  The numbers written out are T_DEBUG, T_NMI, T_OFLOW,
\* T_BOUND, T_ILLOP, T_DEVICE, T_DBLFLT, T_TSS, T_SEGNP, T_STACK, T_FPERR,
\* T_MCHK and T_SIMDERR of inc/trap.h.
TrapHandlers ==
    { [name |-> "divide_error", num |-> T_DIVIDE, noec |-> TRUE],
      [name |-> "debug", num |-> 1, noec |-> TRUE],
      [name |-> "nmi", num |-> 2, noec |-> TRUE],
      [name |-> "int3", num |-> T_BRKPT, noec |-> TRUE],
      [name |-> "overflow", num |-> 4, noec |-> TRUE],
      [name |-> "bounds", num |-> 5, noec |-> TRUE],
      [name |-> "invalid_op", num |-> 6, noec |-> TRUE],
      [name |-> "device_not_available", num |-> 7, noec |-> TRUE],
      [name |-> "doublefault_fn", num |-> 8, noec |-> FALSE],
      [name |-> "invalid_TSS", num |-> 10, noec |-> FALSE],
      [name |-> "segment_not_present", num |-> 11, noec |-> FALSE],
      [name |-> "stack_segment", num |-> 12, noec |-> FALSE],
      [name |-> "general_protection", num |-> T_GPFLT, noec |-> FALSE],
      [name |-> "page_fault", num |-> T_PGFLT, noec |-> FALSE],
      [name |-> "coprocessor_error", num |-> 16, noec |-> TRUE],
      [name |-> "alignment_check", num |-> T_ALIGN, noec |-> TRUE],
      [name |-> "machine_check", num |-> 18, noec |-> TRUE],
      [name |-> "simd_coprocessor_error", num |-> 19, noec |-> TRUE],
      [name |-> "system_call", num |-> T_SYSCALL, noec |-> TRUE] }
    \cup { [name |-> "irq", num |-> IRQ_OFFSET + i, noec |-> TRUE] :
             i \in 0 .. 15 }

\* idt_init (kern/trap.c lines 68-104): the stub of each vector.
idt(v) == CHOOSE h \in TrapHandlers : h.num = v

\* struct Trapframe (inc/trap.h) laid over the stack when trap() is called:
\* eight general registers, es and ds, then these fields.
Trapframe(stack) ==
    [tf_trapno |-> stack[11], tf_err |-> stack[12], tf_eip |-> stack[13],
     tf_cs |-> stack[14], tf_eflags |-> stack[15]]

\* Lines 81-94, _alltraps: ds, es and the general registers, then the call
\* of trap() with the address of the stack's top.
alltraps(stack) ==
    [i \in 1 .. 8 |-> Word("reg", 0)] \o
    <<Word("es", 0), Word("ds", 0)>> \o stack

\* What the processor reports of an entry: the values of eip and of the
\* error code, and the privilege level it interrupted.
EntryEips == {32, 36}
EntryErrs == {0, 2}
EntryCpls == {0, 3}

\* The processor takes the trap of vector v at privilege level cpl: it
\* pushes ss and esp when it comes from user mode, eflags, cs, eip and at
\* the vectors of HwErrorCode the error code, and runs the stub of the
\* vector down to its jump to _alltraps.  Alignment is checked at privilege
\* level 3 only.
TrapEntry ==
    /\ kstate = "user"
    /\ kstack = <<>>
    /\ \E v \in {h.num : h \in TrapHandlers}, eip \in EntryEips,
          err \in EntryErrs, cpl \in EntryCpls :
          /\ v = T_ALIGN => cpl = 3
          /\ LET hw == <<Word("eip", eip), Word("cs", cpl),
                          Word("eflags", 0)>> \o
                       IF cpl = 3 THEN <<Word("esp", 0), Word("ss", cpl)>>
                       ELSE <<>>
                 code == IF v \in HwErrorCode THEN err ELSE 0
                 pushed == IF v \in HwErrorCode
                           THEN Push(hw, Word("err", err))
                           ELSE hw
             IN /\ kstack' = IF idt(v).noec
                             THEN TRAPHANDLER_NOEC(pushed, v)
                             ELSE TRAPHANDLER(pushed, v)
                /\ last' = [op |-> "entry", caller |-> curenv,
                            ctl |-> "ret", r |-> 0, arg |-> NoArg,
                            tf |-> TrapTf(v, IF cpl = 3 THEN GD_UT_3
                                             ELSE GD_KT,
                                          AddrVA(eip), NULL, code),
                            utf |-> NoUtf]
    /\ kstate' = "alltraps"
    /\ UNCHANGED <<envs, pgdir, ptes, pp_ref, page_free_list, curenv,
                   nsteps, fresh, user, e100>>

\* The common path up to the call of trap().
AllTraps ==
    /\ kstate = "alltraps"
    /\ kstack' = alltraps(kstack)
    /\ kstate' = "trap"
    /\ UNCHANGED <<envs, pgdir, ptes, pp_ref, page_free_list, curenv, last,
                   nsteps, fresh, user, e100>>

----------------------------------------------------------------------------
\* The E100 driver (kern/e100.c, kern/e100.h).  The rings are indexed
\* 0 .. CBLSIZE-1; next and prev are the neighbours in the ring.  A command
\* is the set of its bits.  The field dev of a command block is not in the
\* code: it tells that the block was handed to the device, which has not
\* completed it yet.  cu and ru are the places of the device in the rings.

E_CBL_FULL == 1
E_RFA_FULL == 3
E_RFA_EMPTY == 4
CB_COMPLETE == 32768
RFD_COMPLETE == 32768
CB_NOP == {}
CB_TX == {"TX"}
CB_S == {"S"}
RFD_S == {"S"}
RFASIZE == CBLSIZE

Ring == 0 .. CBLSIZE - 1
RingNext(i) == (i + 1) % CBLSIZE
RingPrev(i) == (i + CBLSIZE - 1) % CBLSIZE

\* A page of a ring as memset leaves it.
ZeroBlock == [status |-> 0, command |-> {}, data |-> 0, dev |-> FALSE]

\* e100_cbl_alloc: the ring of zeroed command blocks, a nop with the suspend
\* bit in the last one.
e100_cbl_alloc(nic) ==
    [nic EXCEPT !.cbs = [i \in Ring |->
                           IF i = CBLSIZE - 1
                           THEN [ZeroBlock EXCEPT !.command = CB_NOP \cup CB_S,
                                                  !.dev = TRUE]
                           ELSE ZeroBlock],
                !.cbs_avail = CBLSIZE - 1,
                !.cb_to_clean = 0,
                !.cb_to_use = CBLSIZE - 1,
                !.cu = CBLSIZE - 1]

\* e100_rfa_alloc: the ring of zeroed receive frame descriptors.
e100_rfa_alloc(nic) ==
    [nic EXCEPT !.rfds = [i \in Ring |-> ZeroBlock],
                !.rfds_avail = RFASIZE,
                !.rfd_to_clean = CBLSIZE - 1,
                !.rfd_to_use = 0,
                !.ru = 0]

\* e100_init: both rings allocated; no call of the driver was made yet.
e100_init ==
    e100_rfa_alloc(e100_cbl_alloc(
        [cbs |-> <<>>, cbs_avail |-> 0, cb_to_clean |-> 0, cb_to_use |-> 0,
         cu |-> 0, rfds |-> <<>>, rfds_avail |-> 0, rfd_to_clean |-> 0,
         rfd_to_use |-> 0, ru |-> 0, op |-> "e100_init", ret |-> 0,
         calls |-> 0]))

\* e100_tx_clean: counts the command blocks marked complete from cb_to_clean
\* on.
RECURSIVE e100_tx_clean(_)
e100_tx_clean(nic) ==
    IF /\ nic.cbs_avail <= CBLSIZE
       /\ nic.cbs[nic.cb_to_clean].status = CB_COMPLETE
    THEN e100_tx_clean([nic EXCEPT !.cb_to_clean = RingNext(@),
                                   !.cbs_avail = @ + 1])
    ELSE nic

\* e100_xmit_prepare: the packet goes into the block after cb_to_use.
e100_xmit_prepare(nic, data, flag) ==
    LET use == RingNext(nic.cb_to_use)
    IN [nic EXCEPT !.cb_to_use = use,
                   !.cbs_avail = @ - 1,
                   !.cbs[use] = [status |-> 0, command |-> CB_TX \cup flag,
                                 data |-> data, dev |-> TRUE]]

\* e100_xmit_frame, lines 132-153, without the resume command to the
\* device.
e100_xmit_frame(nic, data) ==
    LET n1 == e100_tx_clean(nic)
    IN IF n1.cbs_avail = 0
       THEN [n1 EXCEPT !.ret = 0 - E_CBL_FULL]
       ELSE [e100_xmit_prepare(
                [n1 EXCEPT !.cbs[n1.cb_to_use].command = @ \ CB_S],
                data, CB_S)
             EXCEPT !.ret = 0]

\* e100_rx_clean: counts the descriptors marked complete after rfd_to_clean.
RECURSIVE e100_rx_clean(_)
e100_rx_clean(nic) ==
    IF /\ nic.rfds_avail <= RFASIZE
       /\ nic.rfds[RingNext(nic.rfd_to_clean)].status = RFD_COMPLETE
    THEN e100_rx_clean([nic EXCEPT !.rfd_to_clean = RingNext(@),
                                   !.rfds_avail = @ + 1])
    ELSE nic

\* An e100_rx_indicate that leaves the status of the descriptor as it is.
e100_rx_indicate_keeps(nic) ==
    LET use == nic.rfd_to_use
        n1 == [nic EXCEPT !.rfds[RingPrev(use)].command = @ \ RFD_S]
    IN [n1 EXCEPT !.rfds[use].command = RFD_S,
                  !.rfds_avail = @ - 1,
                  !.rfd_to_use = RingNext(use),
                  !.ret = n1.rfds[use].data]

\* e100_rx_indicate: hands out the packet of rfd_to_use, whose size is the
\* result.
e100_rx_indicate(nic) ==
    LET use == nic.rfd_to_use
        n1 == [nic EXCEPT !.rfds[RingPrev(use)].command = @ \ RFD_S]
    IN [n1 EXCEPT !.rfds[use].command = RFD_S,
                  !.rfds[use].status = 0,
                  !.rfds_avail = @ - 1,
                  !.rfd_to_use = RingNext(use),
                  !.ret = n1.rfds[use].data]

\* e100_rx, lines 258-282, without the resume command to the device.
e100_rx(nic) ==
    LET n1 == e100_rx_clean(nic)
    IN IF n1.rfds_avail = 0 THEN [n1 EXCEPT !.ret = 0 - E_RFA_FULL]
       ELSE IF n1.rfds_avail = RFASIZE
       THEN [n1 EXCEPT !.ret = 0 - E_RFA_EMPTY]
       ELSE e100_rx_indicate(n1)

Packets == {1, 2}

\* A call of the driver by the kernel.
Called(nic, op) == [nic EXCEPT !.op = op, !.calls = @ + 1]

OnlyNic ==
    UNCHANGED <<envs, pgdir, ptes, pp_ref, page_free_list, curenv, kstate,
                last, nsteps, fresh, user, kstack>>

XmitFrame ==
    /\ e100.calls < MaxCalls
    /\ \E data \in Packets :
          e100' = Called(e100_xmit_frame(e100, data), "e100_xmit_frame")
    /\ OnlyNic

Rx ==
    /\ e100.calls < MaxCalls
    /\ e100' = Called(e100_rx(e100), "e100_rx")
    /\ OnlyNic

\* The device completes the command block it is at, one that the driver
\* handed to it, and sets the C bit in its status.
CUCompletes ==
    /\ e100.cbs[e100.cu].dev
    /\ e100' = [e100 EXCEPT !.cbs[e100.cu].status = CB_COMPLETE,
                            !.cbs[e100.cu].dev = FALSE,
                            !.cu = RingNext(@),
                            !.op = "cu"]
    /\ OnlyNic

\* The device receives a frame into the descriptor it is at, one that holds
\* no frame, and sets the C bit in its status.
RUReceives ==
    /\ e100.rfds[e100.ru].status = 0
    /\ \E data \in Packets :
          e100' = [e100 EXCEPT !.rfds[e100.ru].status = RFD_COMPLETE,
                               !.rfds[e100.ru].data = data,
                               !.ru = RingNext(@),
                               !.op = "ru"]
    /\ OnlyNic

----------------------------------------------------------------------------
\* The system calls that read or write through a pointer of the caller
\* (kern/syscall.c): sys_cputs, sys_env_set_trapframe, sys_xmit_frame and
\* sys_rx.

\* Page number of KERNBASE (0xf0000000 >> 12).
KERNBASE_PN == 983040
\* sizeof(struct Trapframe).
TF_SIZE == 68
\* Number of bytes of the buffer given to sys_cputs and sys_xmit_frame.
BufLen == 16

\* The pages of [va, va + len) (len at most PGSIZE).
PagesOf(va, len) ==
    {va.pn} \cup (IF va.off + len > PGSIZE THEN {va.pn + 1} ELSE {})

\* Whether the kernel, on the page directory of slot e, can access
\* [va, va + len) with the bits of perm (PTE_P to read, PTE_P and PTE_W to
\* write): its own memory from KERNBASE up, and below it the pages mapped
\* with these bits.  Any other access is a page fault in kernel mode, at
\* which page_fault_handler panics.
KernelCan(k, e, va, len, perm) ==
    \A pn \in PagesOf(va, len) :
       pn >= KERNBASE_PN \/ perm \subseteq PteOf(k, e, pn).perm

\* sys_cputs: user_mem_assert destroys the caller unless it may read the
\* string.
sys_cputs(k, cur, s, len) ==
    IF ~user_mem_check(k, cur, s, len, PTE_P \cup PTE_U)
    THEN Destroyed(k, cur)
    ELSE Returns(k, cur, 0)

\* sys_xmit_frame: user_mem_assert with PTE_P, then the driver queues the
\* frame read from mem.
sys_xmit_frame(k, cur, nic, mem, data, len) ==
    IF ~user_mem_check(k, cur, data, len, PTE_P)
    THEN [res |-> Destroyed(k, cur), nic |-> nic]
    ELSE LET n1 == e100_xmit_frame(nic, mem[k.ptes[cur][data.pn].pa].data)
         IN [res |-> Returns(k, cur, n1.ret),
             nic |-> Called(n1, "e100_xmit_frame")]

\* sys_rx: the driver copies the frame it hands out to data, in the page of
\* mem mapped there or in the kernel's memory, and returns its size.
sys_rx(k, cur, nic, mem, data) ==
    LET n1 == e100_rx(nic)
    IN IF n1.ret < 0
       THEN [res |-> Returns(k, cur, n1.ret), nic |-> Called(n1, "e100_rx"),
             mem |-> mem]
       ELSE IF ~KernelCan(k, cur, data, n1.ret, PTE_P \cup PTE_W)
       THEN [res |-> Panics(k, cur), nic |-> nic, mem |-> mem]
       ELSE [res |-> Returns(k, cur, n1.ret), nic |-> Called(n1, "e100_rx"),
             mem |-> IF data.pn >= KERNBASE_PN THEN mem
                     ELSE [mem EXCEPT ![k.ptes[cur][data.pn].pa].data =
                                         n1.ret]]

\* The pointers given: the start of the program's page, its last bytes, a
\* page that is not mapped, and the kernel's memory.
PtrInputs ==
    {VA(ProgPN, 0), VA(ProgPN, PGSIZE - 8), NULL, VA(KERNBASE_PN, 0)}

\* A system call given the pointer ptr, which leaves the driver as nic and
\* the memory as mem.
PtrTrap(op, ptr, res, nic, mem, oob) ==
    LET m == trap(K, curenv, op, Arg(ptr, {}), res, oob)
    IN /\ nsteps' = nsteps + 1
       /\ fresh' = StillFresh(m)
       /\ envs' = m.k.envs
       /\ pgdir' = m.k.pgdir
       /\ ptes' = m.k.ptes
       /\ pp_ref' = m.k.pp_ref
       /\ page_free_list' = m.k.free
       /\ curenv' = m.curenv
       /\ kstate' = m.kstate
       /\ last' = [m.last EXCEPT !.arg = Arg(ptr, {})]
       /\ e100' = nic
       /\ kstack' = kstack
       /\ user' = Survive([user EXCEPT !.mem = mem], m.k)

SysCputs ==
    /\ InUser
    /\ \E s \in PtrInputs, oob \in OobChoices :
          PtrTrap("sys_cputs", s, sys_cputs(K, curenv, s, BufLen), e100,
                  user.mem, oob)

SysXmitFrame ==
    /\ InUser
    /\ e100.calls < MaxCalls
    /\ \E data \in PtrInputs, oob \in OobChoices :
          LET x == sys_xmit_frame(K, curenv, e100, user.mem, data, BufLen)
          IN PtrTrap("sys_xmit_frame", data, x.res, x.nic, user.mem, oob)

SysRx ==
    /\ InUser
    /\ e100.calls < MaxCalls
    /\ \E data \in PtrInputs, oob \in OobChoices :
          LET x == sys_rx(K, curenv, e100, user.mem, data)
          IN PtrTrap("sys_rx", data, x.res, x.nic, x.mem, oob)

\* sys_env_set_trapframe(0, ptr): the frame read through ptr is any frame,
\* or none when the kernel cannot read there.
SysEnvSetTrapframeAt ==
    /\ InUser
    /\ \E ptr \in PtrInputs, tf \in TfInputs, oob \in OobChoices :
          /\ tf.fault = ~KernelCan(K, curenv, ptr, TF_SIZE, PTE_P)
          /\ PtrTrap("sys_env_set_trapframe", ptr,
                     sys_env_set_trapframe(K, curenv, 0, tf), e100,
                     user.mem, oob)

----------------------------------------------------------------------------
\* The library's ipc_send (lib/ipc.c).

\* An ipc_send that gives up on any error.
ipc_send_returns(u, r) ==
    IF r < 0 THEN [u EXCEPT !.pc = "done"]
    ELSE [u EXCEPT !.pc = "done", !.sent = @ + 1]

\* Lines 66-70: the loop of ipc_send after sys_ipc_try_send returned r.
ipc_send(u, r) ==
    IF r < 0
    THEN IF r # 0 - E_IPC_NOT_RECV THEN [u EXCEPT !.pc = "panic"]
         ELSE [u EXCEPT !.pc = "yield"]
    ELSE [u EXCEPT !.pc = "done", !.sent = @ + 1]

\* Whether the machine runs user code and the current environment is at pc
\* in the library.
AtPc(pc) ==
    /\ kstate = "user"
    /\ user.env[curenv].pc = pc
    /\ user.env[curenv].hpc = "none"
\* Whether it runs its own program.
InProgram == kstate = "user" /\ user.env[curenv].pc \in {"none", "done"}

SendPgs == {NULL, VA(ProgPN, 0)}
SendPerms == {PTE_U \cup PTE_P, PTE_U \cup PTE_P \cup PTE_W}

\* Lines 57-64: the program calls ipc_send; a null pg stands for no page.
IpcSendCall ==
    /\ AtPc("none")
    /\ \E to_env \in IdInputs \ {0}, pg \in SendPgs, perm \in SendPerms :
          user' = [user EXCEPT !.env[curenv] =
                     [NoLib EXCEPT !.pc = "try", !.to_env = to_env,
                                   !.val = 42,
                                   !.pg = IF pg = NULL THEN UTOP ELSE pg,
                                   !.perm = perm]]
    /\ UNCHANGED <<envs, pgdir, ptes, pp_ref, page_free_list, curenv, kstate,
                   last, nsteps, fresh, e100, kstack>>

\* Line 66: sys_ipc_try_send and the test of its result.
IpcSendTry ==
    /\ AtPc("try")
    /\ \E oob \in OobChoices :
          LET u == user.env[curenv]
              m == trap(K, curenv, "sys_ipc_try_send", Arg(u.pg, u.perm),
                        sys_ipc_try_send(K, curenv, u.to_env, u.val, u.pg,
                                         u.perm), oob)
          IN InstallLib(m, ipc_send(u, Eax(m, curenv)))

\* Line 69: sys_yield, then the loop again.
IpcSendYield ==
    /\ AtPc("yield")
    /\ \E oob \in OobChoices :
          InstallLib(trap(K, curenv, "sys_yield", NoArg, sys_yield(K, curenv),
                          oob),
                     [user.env[curenv] EXCEPT !.pc = "try"])

\* Lines 32-45 of ipc_recv once sys_ipc_recv has returned r: what it stores
\* in *from_env_store and returns, read from the environment's record e.
ipc_recv(u, r, e) ==
    IF r < 0 THEN [u EXCEPT !.pc = "none", !.from = 0, !.ret = r]
    ELSE [u EXCEPT !.pc = "none", !.from = e.env_ipc_from,
                   !.ret = e.env_ipc_value]

\* Lines 29-32: the program calls ipc_recv, which calls sys_ipc_recv; the
\* call returns at once when it fails and blocks otherwise.
IpcRecvCall ==
    /\ AtPc("none")
    /\ \E pg \in SendPgs, oob \in OobChoices :
          LET u == user.env[curenv]
              dstva == IF pg = NULL THEN UTOP ELSE pg
              res == sys_ipc_recv(K, curenv, dstva)
              m == trap(K, curenv, "sys_ipc_recv", Arg(dstva, {}), res, oob)
          IN InstallLib(m, IF res.ctl = "ret"
                           THEN ipc_recv(u, res.r, m.k.envs[curenv])
                           ELSE [u EXCEPT !.pc = "recvd"])

\* Lines 41-45: the environment runs again after sys_ipc_recv, with the
\* value the kernel left in its eax.
IpcRecvReturn ==
    /\ AtPc("recvd")
    /\ user' = [user EXCEPT !.env[curenv] =
                  ipc_recv(@, envs[curenv].reg_eax, envs[curenv])]
    /\ UNCHANGED <<envs, pgdir, ptes, pp_ref, page_free_list, curenv, kstate,
                   last, nsteps, fresh, e100, kstack>>

----------------------------------------------------------------------------
\* The library's fork and its page fault handler (lib/fork.c).

FEC_PR == 1
FEC_WR == 2
FEC_U == 4
PFTEMP == VA(PFTEMP_PN, 0)
\* The address of _pgfault_upcall, the entry of lib/pfentry.S.
pgfault_upcall == 1

PUW == PTE_P \cup PTE_U \cup PTE_W

\* Whether a user write to page pn of slot e goes through.
Writable(k, e, pn) == PUW \subseteq PteOf(k, e, pn).perm
\* The error code of the fault it takes otherwise.
WriteErr(k, e, pn) ==
    IF PTE_P \subseteq PteOf(k, e, pn).perm THEN FEC_PR + FEC_WR + FEC_U
    ELSE FEC_WR + FEC_U
\* What slot e reads at page pn.
View(k, mem, e, pn) ==
    IF PTE_P \subseteq PteOf(k, e, pn).perm
    THEN [mapped |-> TRUE, c |-> mem[k.ptes[e][pn].pa]]
    ELSE [mapped |-> FALSE, c |-> ZeroPage]

\* The library has panicked: the environment executes nothing more of it.
Panicked(u) == [u EXCEPT !.pc = "panic", !.hpc = "none"]

\* Lines 73-74 and 84 of duppage, with a child that gets the page writable.
duppage_perm_shared(pte) ==
    IF pte.perm \cap (PTE_W \cup PTE_COW) # {} THEN PUW
    ELSE PTE_P \cup PTE_U

\* A duppage that maps every page read-only, never copy-on-write.
duppage_perm_readonly(pte) == PTE_P \cup PTE_U

\* Lines 73-74 and 84 of duppage: the permission of the child's mapping.
duppage_perm(pte) ==
    IF pte.perm \cap (PTE_W \cup PTE_COW) # {}
    THEN PTE_P \cup PTE_U \cup PTE_COW
    ELSE PTE_P \cup PTE_U

\* A loop that duplicates the exception stack page as well.
DupPages_all(k, e) ==
    {pn \in UserPNs : HasPT(k, e, pn) /\ PTE_P \subseteq k.ptes[e][pn].perm}

\* Lines 137-156: the pages fork calls duppage on.
DupPages(k, e) ==
    {pn \in UserPNs : /\ HasPT(k, e, pn)
                      /\ PTE_P \subseteq k.ptes[e][pn].perm
                      /\ pn < XSTACK_PN}

\* The next of them from page pn on, UTOP_PN when the loop is through.
NextDup(k, e, pn) ==
    LET S == {q \in DupPages(k, e) : q >= pn}
    IN IF S = {} THEN UTOP_PN ELSE Min(S)

\* A fork that starts the child before it gives it an exception stack.
fork_early(pc) ==
    CASE pc = "status" -> "xstack"
      [] pc = "xstack" -> "upcall"
      [] pc = "upcall" -> "done"

\* Lines 158-173: the order of fork's last system calls.
fork(pc) ==
    CASE pc = "xstack" -> "upcall"
      [] pc = "upcall" -> "status"
      [] pc = "status" -> "done"

\* The first of them.
ForkTail == CHOOSE pc \in {"xstack", "upcall", "status"} :
               \A q \in {"xstack", "upcall", "status"} : fork(q) # pc

\* The parent after the duppage of page u.pn.
Duplicated(u, k, e) ==
    LET q == NextDup(k, e, u.pn + 1)
    IN [u EXCEPT !.pn = q, !.pc = IF q = UTOP_PN THEN ForkTail ELSE "duppage"]

\* A handler that takes every write fault for one to a copy-on-write page.
pgfault_anyWrite(k, e, utf) ==
    (utf.utf_err \div FEC_WR) % 2 = 1

\* Lines 28-32 of pgfault: the fault is a write to a copy-on-write page.
pgfault(k, e, utf) ==
    /\ (utf.utf_err \div FEC_WR) % 2 = 1
    /\ PTE_COW \subseteq PteOf(k, e, utf.utf_fault_va.pn).perm

\* The memory after a successful sys_page_alloc at page pn of slot e: the
\* kernel has zeroed the frame.
Zeroed(mem, k, e, pn) == [mem EXCEPT ![k.ptes[e][pn].pa] = ZeroPage]

\* A step of the library without a kernel entry.
UserStep(u, mem) ==
    /\ user' = [env |-> [user.env EXCEPT ![curenv] = u], mem |-> mem]
    /\ UNCHANGED <<envs, pgdir, ptes, pp_ref, page_free_list, curenv, kstate,
                   last, nsteps, fresh, e100, kstack>>

\* A system call of the library; oob is the scheduler's read past its table.
LibCall(op, res, oob) == trap(K, curenv, op, NoArg, res, oob)

\* A write of contents c to page pn by the current environment, which goes
\* on as u when the write is done.  A write that faults leaves the
\* environment where it is, in the upcall if the kernel made one.
Write(pn, c, u, oob) ==
    IF Writable(K, curenv, pn)
    THEN UserStep(u, [user.mem EXCEPT ![ptes[curenv][pn].pa] = c])
    ELSE LET m == trap_other(K, curenv, GD_UT_3, T_PGFLT,
                             envs[curenv].tf_esp, VA(pn, 8),
                             WriteErr(K, curenv, pn), oob)
         IN InstallLib(m, [user.env[curenv] EXCEPT !.hpc = "pgfault",
                                                   !.utf = m.last.utf])

\* Line 116, set_pgfault_handler (lib/pgfault.c): registers the upcall
\* unless the handler is installed.
ForkSetHandler ==
    /\ AtPc("none")
    /\ curenv # 0
    /\ LET u == user.env[curenv]
       IN IF envs[curenv].env_pgfault_upcall # 0
          THEN UserStep([u EXCEPT !.pc = "exofork"], user.mem)
          ELSE \E oob \in OobChoices :
                  LET m == LibCall("sys_env_set_pgfault_upcall",
                                   sys_env_set_pgfault_upcall(
                                       K, curenv, 0, pgfault_upcall), oob)
                  IN InstallLib(m, IF Eax(m, curenv) < 0 THEN Panicked(u)
                                   ELSE [u EXCEPT !.pc = "exofork"])

\* Lines 123-134: sys_exofork.  The child has the registers of its parent
\* and goes on in fork when it runs.
ForkExofork ==
    /\ AtPc("exofork")
    /\ \E oob \in OobChoices :
          LET u == user.env[curenv]
              m == LibCall("sys_exofork", sys_exofork(K, curenv), oob)
              r == Eax(m, curenv)
              q == NextDup(m.k, curenv, 0)
          IN /\ InstallMachine(m)
             /\ nsteps' = nsteps
             /\ user' =
                  IF r < 0
                  THEN [user EXCEPT !.env[curenv] = Panicked(u)]
                  ELSE [user EXCEPT
                          !.env[curenv] =
                             [u EXCEPT !.child = r, !.pn = q,
                                       !.pc = IF q = UTOP_PN THEN ForkTail
                                              ELSE "duppage"],
                          !.env[ENVX(r)] = [NoLib EXCEPT !.pc = "child"]]

\* Lines 76 and 85 of duppage: the page goes to the child.
ForkDuppage ==
    /\ AtPc("duppage")
    /\ \E oob \in OobChoices :
          LET u == user.env[curenv]
              pte == PteOf(K, curenv, u.pn)
              m == LibCall("sys_page_map",
                           sys_page_map(K, curenv, 0, VA(u.pn, 0), u.child,
                                        VA(u.pn, 0), duppage_perm(pte),
                                        NoUB), oob)
          IN InstallLib(m,
                IF Eax(m, curenv) < 0 THEN Panicked(u)
                ELSE IF pte.perm \cap (PTE_W \cup PTE_COW) # {}
                THEN [u EXCEPT !.pc = "duppage_self"]
                ELSE Duplicated(u, m.k, curenv))

\* Line 80 of duppage: the parent's own mapping becomes copy-on-write.
ForkDuppageSelf ==
    /\ AtPc("duppage_self")
    /\ \E oob \in OobChoices :
          LET u == user.env[curenv]
              m == LibCall("sys_page_map",
                           sys_page_map(K, curenv, 0, VA(u.pn, 0), 0,
                                        VA(u.pn, 0),
                                        PTE_P \cup PTE_U \cup PTE_COW,
                                        NoUB), oob)
          IN InstallLib(m, IF Eax(m, curenv) < 0 THEN Panicked(u)
                           ELSE Duplicated(u, m.k, curenv))

\* Line 162: the child's exception stack.
ForkXstack ==
    /\ AtPc("xstack")
    /\ \E oob \in OobChoices :
          LET u == user.env[curenv]
              m == LibCall("sys_page_alloc",
                           sys_page_alloc(K, curenv, u.child,
                                          VASub(UXSTACKTOP, PGSIZE), PUW),
                           oob)
          IN IF Eax(m, curenv) < 0
             THEN InstallLib(m, Panicked(u))
             ELSE InstallUser(m, [u EXCEPT !.pc = fork("xstack")],
                              Zeroed(user.mem, m.k, ENVX(u.child),
                                     XSTACK_PN))

\* Line 166: the child's upcall.
ForkUpcall ==
    /\ AtPc("upcall")
    /\ \E oob \in OobChoices :
          LET u == user.env[curenv]
              m == LibCall("sys_env_set_pgfault_upcall",
                           sys_env_set_pgfault_upcall(K, curenv, u.child,
                                                      pgfault_upcall), oob)
          IN InstallLib(m, IF Eax(m, curenv) < 0 THEN Panicked(u)
                           ELSE [u EXCEPT !.pc = fork("upcall")])

\* Lines 170-173: the child may run; fork returns its id when it is
\* through.
ForkStatus ==
    /\ AtPc("status")
    /\ \E oob \in OobChoices :
          LET u == user.env[curenv]
              m == LibCall("sys_env_set_status",
                           sys_env_set_status(K, curenv, u.child,
                                              ENV_RUNNABLE), oob)
          IN InstallLib(m, IF Eax(m, curenv) < 0 THEN Panicked(u)
                           ELSE [u EXCEPT !.pc = fork("status"),
                                          !.ret = u.child])

\* Line 132 in the child: sys_getenvid.
ForkChild ==
    /\ AtPc("child")
    /\ \E oob \in OobChoices :
          LET u == user.env[curenv]
              m == LibCall("sys_getenvid",
                           Returns(K, curenv, envs[curenv].env_id), oob)
          IN InstallLib(m, [u EXCEPT !.pc = "child_env",
                                     !.child = Eax(m, curenv)])

\* Lines 132-133 in the child: env points at the child's own record; fork
\* returns 0.
ForkChildEnv ==
    /\ AtPc("child_env")
    /\ \E oob \in OobChoices :
          LET u == user.env[curenv]
              c == View(K, user.mem, curenv, ProgPN).c
          IN Write(ProgPN, [c EXCEPT !.env = ENVX(u.child)],
                   [u EXCEPT !.pc = "done", !.child = 0, !.ret = 0], oob)

StoreValues == {187, 204}
StorePNs == {0, ProgPN}

\* After fork the program writes a byte.
Store ==
    /\ AtPc("done")
    /\ user.env[curenv].stores < MaxStores
    /\ \E oob \in OobChoices, pn \in StorePNs, b \in StoreValues :
          LET u == user.env[curenv]
              c == View(K, user.mem, curenv, pn).c
          IN Write(pn, [c EXCEPT !.data = b],
                   [u EXCEPT !.stores = @ + 1, !.at = pn, !.byte = b], oob)

\* Whether the current environment is at hpc in the page fault handler.
AtHpc(hpc) == kstate = "user" /\ user.env[curenv].hpc = hpc

\* Lines 28-44 of pgfault: the checks and the page at PFTEMP.
PgfaultAlloc ==
    /\ AtHpc("pgfault")
    /\ LET u == user.env[curenv]
       IN IF ~pgfault(K, curenv, u.utf)
          THEN UserStep(Panicked(u), user.mem)
          ELSE \E oob \in OobChoices :
                  LET m == LibCall("sys_page_alloc",
                                   sys_page_alloc(K, curenv, 0, PFTEMP, PUW),
                                   oob)
                  IN IF Eax(m, curenv) < 0
                     THEN InstallLib(m, Panicked(u))
                     ELSE InstallUser(m, [u EXCEPT !.hpc = "memmove"],
                                      Zeroed(user.mem, m.k, curenv,
                                             PFTEMP_PN))

\* Line 46: the copy.
PgfaultMemmove ==
    /\ AtHpc("memmove")
    /\ LET u == user.env[curenv]
           addr == u.utf.utf_fault_va.pn
       IN UserStep([u EXCEPT !.hpc = "map"],
                   [user.mem EXCEPT ![ptes[curenv][PFTEMP_PN].pa] =
                                       View(K, user.mem, curenv, addr).c])

\* Line 48: the copy takes the place of the page.
PgfaultMap ==
    /\ AtHpc("map")
    /\ \E oob \in OobChoices :
          LET u == user.env[curenv]
              m == LibCall("sys_page_map",
                           sys_page_map(K, curenv, 0, PFTEMP, 0,
                                        VA(u.utf.utf_fault_va.pn, 0), PUW,
                                        NoUB), oob)
          IN InstallLib(m, IF Eax(m, curenv) < 0 THEN Panicked(u)
                           ELSE [u EXCEPT !.hpc = "unmap"])

\* Line 51.
PgfaultUnmap ==
    /\ AtHpc("unmap")
    /\ \E oob \in OobChoices :
          LET u == user.env[curenv]
              m == LibCall("sys_page_unmap",
                           sys_page_unmap(K, curenv, 0, PFTEMP), oob)
          IN InstallLib(m, IF Eax(m, curenv) < 0 THEN Panicked(u)
                           ELSE [u EXCEPT !.hpc = "return"])

\* lib/pfentry.S after the handler: the registers of the user trap frame,
\* and the instruction that faulted again.
PgfaultReturn ==
    /\ AtHpc("return")
    /\ LET u == user.env[curenv]
       IN /\ envs' = [envs EXCEPT ![curenv].tf_eip = u.utf.utf_eip,
                                  ![curenv].tf_esp = u.utf.utf_esp,
                                  ![curenv].reg_eax = u.utf.utf_eax]
          /\ user' = [user EXCEPT !.env[curenv] =
                         [u EXCEPT !.hpc = "none", !.utf = NoUtf]]
    /\ UNCHANGED <<pgdir, ptes, pp_ref, page_free_list, curenv, kstate, last,
                   nsteps, fresh, e100, kstack>>

\* A timer interrupt at any place of the library.
Preempt ==
    /\ kstate = "user"
    /\ \E oob \in OobChoices :
          /\ InstallMachine(timer(K, curenv, oob))
          /\ user' = user
          /\ nsteps' = nsteps

\* A call of sched_yield from the kernel, with curenv as the kernel left it.
SchedYield ==
    /\ kstate = "kernel"
    /\ \E oob \in OobChoices :
          /\ nsteps' = nsteps + 1
          /\ Install(Schedule(K, curenv, oob,
                [op |-> "sched_yield", caller |-> curenv, ctl |-> "sched",
                 r |-> 0, arg |-> NoArg, tf |-> NoTrapTf, utf |-> NoUtf]))

\* The trap-time stack pointers: on the normal stack, at the top of the
\* exception stack, inside it, at its bottom, and just below it.
EspInputs ==
    { USTACKTOP, UXSTACKTOP, VASub(UXSTACKTOP, 96),
      VASub(UXSTACKTOP, PGSIZE), VASub(VASub(UXSTACKTOP, PGSIZE), 4) }
FaultVAs == {NULL, VA(ProgPN, 8)}
\* Error codes of a user-mode fault: a read of an absent page, a write to a
\* protected page.
FaultErrs == {4, 7}
\* Traps from user mode other than system calls, the timer and page faults.
UserTrapNos ==
    {T_DIVIDE, T_BRKPT, T_GPFLT, IRQ_OFFSET + IRQ_SPURIOUS,
     IRQ_OFFSET + IRQ_KBD}
\* Traps taken in the kernel.
KernelTrapNos == {T_DIVIDE, T_BRKPT, T_GPFLT, T_PGFLT}

TrapOther(cs, trapno, esp, fault_va, err, oob) ==
    /\ nsteps' = nsteps + 1
    /\ Install(trap_other(K, curenv, cs, trapno, esp, fault_va, err, oob))

PageFault ==
    /\ InUser
    /\ \E esp \in EspInputs, fault_va \in FaultVAs, err \in FaultErrs,
          oob \in OobChoices :
          TrapOther(GD_UT_3, T_PGFLT, esp, fault_va, err, oob)

UserTrap ==
    /\ InUser
    /\ \E trapno \in UserTrapNos, oob \in OobChoices :
          TrapOther(GD_UT_3, trapno, envs[curenv].tf_esp, NULL, 0, oob)

\* A trap taken while the kernel handles an entry, before the entry changed
\* anything.
KernelTrap ==
    /\ InUser
    /\ \E trapno \in KernelTrapNos, oob \in OobChoices :
          TrapOther(GD_KT, trapno, NULL, NULL, 0, oob)

\* The state after boot: the kernel created the idle environment in slot 0
\* and one user environment in slot 1, each with its page directory and its
\* program's page, writable, at ProgPN under its own page table; the first
\* sched_yield runs slot 1.  Slot s holds frames 3s+1 .. 3s+3.
BootEnv(s) ==
    [FreeEnv(NENV + s) EXCEPT !.env_status = ENV_RUNNABLE,
                              !.env_pgdir = 3 * s + 1,
                              !.tf_eip = VA(ProgPN, 32)]

BootFrames == 1 .. 6

Boot ==
    Machine(
      [envs |-> [s \in Slots |-> IF s <= 1 THEN BootEnv(s) ELSE FreeEnv(0)],
       pgdir |-> [s \in Slots |->
                    [x \in UserPDXs |->
                       IF s <= 1 /\ x = PDX(ProgPN) THEN 3 * s + 2 ELSE 0]],
       ptes |-> [s \in Slots |->
                   [pn \in ModelPNs |->
                      IF s <= 1 /\ pn = ProgPN
                      THEN [pa |-> 3 * s + 3,
                            perm |-> PTE_P \cup PTE_U \cup PTE_W]
                      ELSE NoPTE]],
       pp_ref |-> [f \in Frames |-> IF f \in BootFrames THEN 1 ELSE 0],
       free |-> Frames \ BootFrames],
      1, "user",
      [op |-> "boot", caller |-> NoEnv, ctl |-> "sched", r |-> 0,
       arg |-> NoArg, tf |-> NoTrapTf, utf |-> NoUtf])

\* Later states of the run in which slot 1 calls sys_exofork, makes its
\* child ENV_RUNNABLE with sys_env_set_status (ChildStarted), and a timer
\* interrupt switches to the child (ChildRuns); the child then waits in
\* sys_ipc_recv for a page at ProgPN and its parent runs again
\* (ChildBlocked).
Forked ==
    trap(Boot.k, 1, "sys_exofork", NoArg, sys_exofork(Boot.k, 1), FALSE)

ChildStarted ==
    trap(Forked.k, 1, "sys_env_set_status", NoArg,
         sys_env_set_status(Forked.k, 1, Forked.k.envs[1].reg_eax,
                            ENV_RUNNABLE), FALSE)

ChildRuns == timer(ChildStarted.k, 1, FALSE)

ChildBlocked ==
    trap(ChildRuns.k, ChildRuns.curenv, "sys_ipc_recv",
         Arg(VA(ProgPN, 0), {}),
         sys_ipc_recv(ChildRuns.k, ChildRuns.curenv, VA(ProgPN, 0)), FALSE)

\* The state in which slot 1 has twice made a child and destroyed it.
Reforked(m) ==
    LET f == trap(m.k, 1, "sys_exofork", NoArg, sys_exofork(m.k, 1), FALSE)
    IN trap(f.k, 1, "sys_env_destroy", NoArg,
            sys_env_destroy(f.k, 1, f.k.envs[1].reg_eax), FALSE)

ChildrenGone == Reforked(Reforked(Boot))

\* Slot 1 has registered the upcall at address 1.
Upcalled ==
    trap(Boot.k, 1, "sys_env_set_pgfault_upcall", NoArg,
         sys_env_set_pgfault_upcall(Boot.k, 1, 0, 1), FALSE)

WithXStack(perm) ==
    trap(Upcalled.k, 1, "sys_page_alloc", Arg(VASub(UXSTACKTOP, PGSIZE), perm),
         sys_page_alloc(Upcalled.k, 1, 0, VASub(UXSTACKTOP, PGSIZE), perm),
         FALSE)

Handler == WithXStack(PTE_U \cup PTE_P \cup PTE_W)
HandlerRO == WithXStack(PTE_U \cup PTE_P)

\* Slot 1 has also mapped, writable, the page below its exception stack.
HandlerBelow ==
    trap(Handler.k, 1, "sys_page_alloc",
         Arg(USTACKTOP, PTE_U \cup PTE_P \cup PTE_W),
         sys_page_alloc(Handler.k, 1, 0, USTACKTOP,
                        PTE_U \cup PTE_P \cup PTE_W), FALSE)

StartsWith(m, f, u) ==
    /\ user = u
    /\ e100 = e100_init
    /\ kstack = <<>>
    /\ fresh = f
    /\ envs = m.k.envs
    /\ pgdir = m.k.pgdir
    /\ ptes = m.k.ptes
    /\ pp_ref = m.k.pp_ref
    /\ page_free_list = m.k.free
    /\ curenv = m.curenv
    /\ kstate = m.kstate
    /\ last = m.last
    /\ nsteps = 0

Starts(m, f) == StartsWith(m, f, NoUser(m.k))

Init ==
    \/ Starts(Boot, {})
    \/ Starts(ChildStarted, {ENVX(Forked.k.envs[1].reg_eax)})
    \/ Starts(ChildRuns, {})
    \/ Starts(ChildBlocked, {})
    \/ Starts(ChildrenGone, {})

Next ==
    \/ SysEnvDestroy
    \/ SysYield
    \/ SysExofork
    \/ SysEnvSetStatus
    \/ SysEnvSetTrapframe
    \/ SysEnvSetPgfaultUpcall
    \/ SysPageAlloc
    \/ SysPageMap
    \/ SysPageUnmap
    \/ SysIpcTrySend
    \/ SysIpcRecv
    \/ TimerIRQ

Spec == Init /\ [][Next]_vars

\* Runs with every kind of trap, from boot and from the states in which
\* slot 1 has registered a page fault upcall and mapped its exception stack
\* writable (Handler) or read-only (HandlerRO), or the page below it as
\* well (HandlerBelow).
InitTrap ==
    \/ Starts(Boot, {})
    \/ Starts(Handler, {})
    \/ Starts(HandlerRO, {})
    \/ Starts(HandlerBelow, {})

NextTrap ==
    \/ SysEnvDestroy
    \/ SysYield
    \/ SysExofork
    \/ SysEnvSetStatus
    \/ SysEnvSetTrapframe
    \/ SysEnvSetPgfaultUpcall
    \/ SysPageAlloc
    \/ SysPageMap
    \/ SysPageUnmap
    \/ SysIpcTrySend
    \/ SysIpcRecv
    \/ TimerIRQ
    \/ PageFault
    \/ UserTrap
    \/ KernelTrap

SpecTrap == InitTrap /\ [][NextTrap]_vars

\* Runs of sys_page_alloc and sys_page_unmap alone, from boot, from the state
\* with a child, and from the state in which slot 1 has an exception stack.
InitPages ==
    \/ Starts(Boot, {})
    \/ Starts(ChildStarted, {ENVX(Forked.k.envs[1].reg_eax)})
    \/ Starts(Handler, {})

NextPages ==
    \/ SysPageAlloc
    \/ SysPageUnmap

SpecPages == InitPages /\ [][NextPages]_vars

\* Runs in which environments call ipc_send while the others receive or
\* destroy environments and the timer interrupts any of them.
InitIpc ==
    \/ Starts(Boot, {})
    \/ Starts(ChildRuns, {})
    \/ Starts(ChildBlocked, {})

NextIpc ==
    \/ IpcSendCall
    \/ IpcSendTry
    \/ IpcSendYield
    \/ TimerIRQ
    \/ InProgram /\ SysIpcRecv
    \/ InProgram /\ SysEnvDestroy

SpecIpc == InitIpc /\ [][NextIpc]_vars

\* The state in which fork is called: slot 1 has, besides its program's
\* page, a read-only page at 0 and its exception stack, and has or has not
\* installed its page fault handler; n frames exist.  The program's page
\* holds the byte 0xAA and the library's env, which points at slot 1.
ForkPool(n) ==
    [Boot.k EXCEPT !.pp_ref = [f \in 1 .. n |->
                                 IF f \in BootFrames THEN 1 ELSE 0],
                   !.free = (1 .. n) \ BootFrames]

ForkStart(n, installed) ==
    LET k1 == sys_page_alloc(ForkPool(n), 1, 0, NULL, PTE_P \cup PTE_U).k
        k2 == sys_page_alloc(k1, 1, 0, VASub(UXSTACKTOP, PGSIZE), PUW).k
        k3 == IF installed
              THEN sys_env_set_pgfault_upcall(k2, 1, 0, pgfault_upcall).k
              ELSE k2
    IN Machine(k3, 1, "user", Boot.last)

ForkMem(k) ==
    [f \in DOMAIN k.pp_ref |->
       IF f = k.ptes[1][ProgPN].pa THEN [data |-> 170, env |-> 1]
       ELSE IF f = k.ptes[1][0].pa THEN [data |-> 17, env |-> 0]
       ELSE ZeroPage]

ForkPools == {ForkFrames, ForkFrames - 4, ForkFrames - 8}

InitFork ==
    \E n \in ForkPools, installed \in BOOLEAN :
       LET m == ForkStart(n, installed)
       IN StartsWith(m, {}, [NoUser(m.k) EXCEPT !.mem = ForkMem(m.k)])

NextFork ==
    \/ ForkSetHandler
    \/ ForkExofork
    \/ ForkDuppage
    \/ ForkDuppageSelf
    \/ ForkXstack
    \/ ForkUpcall
    \/ ForkStatus
    \/ ForkChild
    \/ ForkChildEnv
    \/ Store
    \/ PgfaultAlloc
    \/ PgfaultMemmove
    \/ PgfaultMap
    \/ PgfaultUnmap
    \/ PgfaultReturn
    \/ Preempt

SpecFork == InitFork /\ [][NextFork]_vars

\* Runs of the driver and the device.
InitNic == Starts(Boot, {})

NextNic ==
    \/ XmitFrame
    \/ Rx
    \/ CUCompletes
    \/ RUReceives

SpecNic == InitNic /\ [][NextNic]_vars

\* Runs of the scheduler alone: the kernel is about to call sched_yield, on
\* any table of statuses, with curenv a slot that is not free or, after
\* env_destroy(curenv), with no curenv.
Statuses == {ENV_FREE, ENV_RUNNABLE, ENV_NOT_RUNNABLE}

SchedTable(st) ==
    [Boot.k EXCEPT
       !.envs = [s \in Slots |->
                   [FreeEnv(NENV + s) EXCEPT !.env_status = st[s]]]]

InitSched ==
    \E st \in [Slots -> Statuses], k \in Slots \cup {NoEnv} :
       /\ k # NoEnv => st[k] # ENV_FREE
       /\ Starts(Machine(SchedTable(st), k, "kernel", Boot.last), {})

NextSched ==
    \/ SchedYield
    \/ TimerIRQ

SpecSched == InitSched /\ [][NextSched]_vars

----------------------------------------------------------------------------
\* Runs of one sender and one receiver, without a bound on the number of
\* kernel entries: slot 1 and its child have both run; one of them is in
\* ipc_send to the other, with no page or with a page it has mapped with
\* the permission it sends, and the other calls ipc_recv again and again.
InitMeet ==
    \E cur \in {1, ChildRuns.curenv}, s \in {1, ChildRuns.curenv},
       pg \in SendPgs, perm \in SendPerms :
       LET k == ChildRuns.k
           r == CHOOSE x \in {1, ChildRuns.curenv} : x # s
           u == NoUser(k)
       IN /\ pg # NULL => perm \subseteq k.ptes[s][pg.pn].perm
          /\ StartsWith(Machine(k, cur, "user", ChildRuns.last), {},
             [u EXCEPT !.env[s] =
                 [NoLib EXCEPT !.pc = "try", !.to_env = k.envs[r].env_id,
                               !.val = 42,
                               !.pg = IF pg = NULL THEN UTOP ELSE pg,
                               !.perm = perm]])

NextMeet ==
    \/ IpcSendTry
    \/ IpcSendYield
    \/ IpcRecvCall
    \/ IpcRecvReturn
    \/ Preempt

\* The clock keeps interrupting, and an environment that is given the
\* processor again and again executes its next instruction.
SpecMeet ==
    /\ InitMeet
    /\ [][NextMeet]_vars
    /\ WF_vars(Preempt)
    /\ SF_vars(IpcSendTry)
    /\ SF_vars(IpcSendYield)
    /\ SF_vars(IpcRecvCall)
    /\ SF_vars(IpcRecvReturn)

----------------------------------------------------------------------------
\* Runs of the system calls that take a pointer, with the device at work.
InitPtr == Starts(Boot, {})

NextPtr ==
    \/ SysCputs
    \/ SysXmitFrame
    \/ SysRx
    \/ SysEnvSetTrapframeAt
    \/ CUCompletes
    \/ RUReceives

SpecPtr == InitPtr /\ [][NextPtr]_vars

----------------------------------------------------------------------------
\* Runs of the trap entry alone: a trap of any installed vector, from boot.
InitEntry == Starts(Boot, {})

NextEntry ==
    \/ TrapEntry
    \/ AllTraps

SpecEntry == InitEntry /\ [][NextEntry]_vars

----------------------------------------------------------------------------
\* Runs of the scheduler over time: an environment of any table runs, and
\* the timer interrupts it, or it yields, or it blocks in sys_ipc_recv,
\* without a bound on the number of kernel entries.
YieldNow ==
    /\ kstate = "user"
    /\ \E oob \in OobChoices :
          /\ InstallMachine(trap(K, curenv, "sys_yield", NoArg,
                                 sys_yield(K, curenv), oob))
          /\ user' = user
          /\ nsteps' = nsteps

BlockNow ==
    /\ kstate = "user"
    /\ \E oob \in OobChoices :
          /\ InstallMachine(trap(K, curenv, "sys_ipc_recv", Arg(NULL, {}),
                                 sys_ipc_recv(K, curenv, NULL), oob))
          /\ user' = user
          /\ nsteps' = nsteps

InitFair ==
    \E st \in [Slots -> Statuses], k \in Slots :
       /\ st[k] = ENV_RUNNABLE
       /\ Starts(Machine(SchedTable(st), k, "user", Boot.last), {})

NextFair ==
    \/ Preempt
    \/ YieldNow
    \/ BlockNow

\* The clock keeps interrupting whatever runs in user mode.
SpecFair == InitFair /\ [][NextFair]_vars /\ WF_vars(Preempt)

----------------------------------------------------------------------------
\* Properties.

\* The slot an id names when it passes the lookup: 0 names the caller.
SlotOf(envid) == IF envid = 0 THEN curenv ELSE ENVX(envid)

\* The steps of sys_ipc_try_send that return r.
SendReturns(r) ==
    last'.op = "sys_ipc_try_send" /\ last'.ctl = "ret" /\ last'.r = r

\* The step is the trap of this system call with this result.
IsCall(op, res) == \E oob \in BOOLEAN : Trap(op, last'.arg, res, oob)

\* What a send that returns 0 leaves in the record of receiver R and in the
\* sender's saved eax.
Delivered(R, value) ==
    /\ envs'[R].env_ipc_from = envs[curenv].env_id
    /\ envs'[R].env_ipc_value = value
    /\ envs'[R].env_ipc_recving = FALSE
    /\ envs'[R].env_status = ENV_RUNNABLE
    /\ envs'[R].reg_eax = 0
    /\ envs'[curenv].reg_eax = 0

\* The sender's frame at srcva is at pn in R with exactly perm, and R's
\* ipc_perm is perm.
Transferred(R, pn, srcva, perm) ==
    /\ ptes'[R][pn] = [pa |-> ptes[curenv][srcva.pn].pa, perm |-> perm]
    /\ ptes[curenv][srcva.pn].pa # 0
    /\ envs'[R].env_ipc_perm = perm

\* No mapping changes and R's ipc_perm is 0.
NotTransferred(R) ==
    /\ ptes' = ptes
    /\ envs'[R].env_ipc_perm = {}

\* C1: a sys_ipc_try_send that returns 0, made right after the receiver's
\* sys_ipc_recv(dstva), leaves in the receiver's record the sender's id, the
\* value, recving false, status ENV_RUNNABLE and a saved eax of 0, and the
\* sender's eax is 0; when srcva is below UTOP and the receiver supplied a
\* dstva (one below UTOP), the sender's frame at srcva is mapped at dstva
\* with exactly perm and ipc_perm is perm; otherwise no mapping changes and
\* ipc_perm is 0.
C1_SendDelivers ==
    [][(SendReturns(0) /\ last.op = "sys_ipc_recv" /\ last.ctl = "sched") =>
       \A envid \in IdInputs, value \in IpcValues, a \in VaPermInputs :
         LET res == sys_ipc_try_send(K, curenv, envid, value, a[1], a[2])
             R == SlotOf(envid)
         IN (R = last.caller /\ res.ctl = "ret" /\ res.r = 0
               /\ IsCall("sys_ipc_try_send", res))
            => /\ Delivered(R, value)
               /\ IF ~AboveUTOP(a[1]) /\ ~AboveUTOP(last.arg.va)
                  THEN Transferred(R, last.arg.va.pn, a[1], a[2])
                  ELSE NotTransferred(R)
      ]_vars

\* The same of every send that returns 0, with "the receiver supplied a
\* dstva" read as: the receiver's env_ipc_dstva is not NULL.
SendDeliversAsRecorded ==
    [][SendReturns(0) =>
       \A envid \in IdInputs, value \in IpcValues, a \in VaPermInputs :
         LET res == sys_ipc_try_send(K, curenv, envid, value, a[1], a[2])
             R == SlotOf(envid)
             dst == envs[R].env_ipc_dstva
         IN (res.ctl = "ret" /\ res.r = 0 /\ IsCall("sys_ipc_try_send", res))
            => /\ Delivered(R, value)
               /\ IF ~AboveUTOP(a[1]) /\ dst # NULL
                  THEN Transferred(R, dst.pn, a[1], a[2])
                  ELSE NotTransferred(R)
      ]_vars

\* A send has just returned 0 and its page sits at the receiver's dstva.
SendDeliversWitness ==
    /\ last.op = "sys_ipc_try_send" /\ last.ctl = "ret" /\ last.r = 0
    /\ \E R \in Slots :
          /\ envs[R].env_ipc_from = envs[last.caller].env_id
          /\ envs[R].env_ipc_perm # {}
          /\ envs[R].env_ipc_dstva # NULL
          /\ ptes[R][envs[R].env_ipc_dstva.pn].pa
               = ptes[last.caller][ProgPN].pa
          /\ R # last.caller

\* Record e is as it was, but for the saved eax of the caller, which takes
\* the call's return value.
RecordKept(e) ==
    envs'[e] = IF e = curenv THEN [envs[e] EXCEPT !.reg_eax = last'.r]
               ELSE envs[e]

\* C2: a sys_ipc_try_send that fails returns -E_BAD_ENV, -E_IPC_NOT_RECV,
\* -E_INVAL or -E_NO_MEM and leaves every record, so the target's, with its
\* recving flag, and every address space as they were.
C2_FailedSendKeeps ==
    [][(last'.op = "sys_ipc_try_send" /\ last'.ctl = "ret" /\ last'.r # 0) =>
         /\ last'.r \in {0 - E_BAD_ENV, 0 - E_IPC_NOT_RECV, 0 - E_INVAL,
                         0 - E_NO_MEM}
         /\ \A e \in Slots : RecordKept(e)
         /\ ptes' = ptes
         /\ pgdir' = pgdir
         /\ pp_ref' = pp_ref
         /\ page_free_list' = page_free_list
      ]_vars

\* A send to a waiting environment has just failed for lack of memory.
C2_Witness ==
    /\ last.op = "sys_ipc_try_send" /\ last.ctl = "ret"
    /\ last.r = 0 - E_NO_MEM
    /\ \E R \in Slots :
          /\ envs[R].env_ipc_recving
          /\ envs[R].env_ipc_from = 0
          /\ envs[R].env_status = ENV_NOT_RUNNABLE

Blocked(R) ==
    /\ envs[R].env_ipc_recving
    /\ envs[R].env_status = ENV_NOT_RUNNABLE

C5_SendTouchesReceiverOnly ==
    [][SendReturns(0) =>
         \E R \in Slots :
            /\ envs[R].env_ipc_recving
            /\ \A e \in Slots \ {R} :
                  /\ RecordKept(e)
                  /\ ptes'[e] = ptes[e]
                  /\ pgdir'[e] = pgdir[e]
            /\ \A pn \in ModelPNs \ {envs[R].env_ipc_dstva.pn} :
                  ptes'[R][pn] = ptes[R][pn]
            /\ \A x \in UserPDXs \ {PDX(envs[R].env_ipc_dstva.pn)} :
                  pgdir'[R][x] = pgdir[R][x]
            /\ envs'[R].env_id = envs[R].env_id
            /\ envs'[R].env_parent_id = envs[R].env_parent_id
            /\ envs'[R].env_pgdir = envs[R].env_pgdir
      ]_vars

\* A send has just handed a page to one of three live environments; the
\* sender keeps its own mapping and the third has its own page.
C5_Witness ==
    /\ last.op = "sys_ipc_try_send" /\ last.ctl = "ret" /\ last.r = 0
    /\ \A e \in Slots : envs[e].env_status # ENV_FREE
    /\ \E R \in Slots \ {last.caller} :
          /\ envs[R].env_ipc_from = envs[last.caller].env_id
          /\ envs[R].env_ipc_perm # {}
          /\ pgdir[R][PDX(ProgPN)] # 0
          /\ \E e \in Slots \ {R, last.caller} :
                /\ ptes[e][ProgPN].pa # ptes[R][ProgPN].pa
                /\ ptes[e][ProgPN].pa # 0

\* The call returns r and leaves the kernel's data as they are.
Fails(res, r) == res = Returns(K, curenv, 0 - r)

\* The id is stale, or names a free slot.
Stale(envid) ==
    \/ envs[ENVX(envid)].env_status = ENV_FREE
    \/ envs[ENVX(envid)].env_id # envid

\* The id names neither the caller nor an environment the caller created.
NotOwn(envid) ==
    envid # 0 /\ (Stale(envid)
                    \/ /\ ENVX(envid) # curenv
                       /\ envs[ENVX(envid)].env_parent_id
                            # envs[curenv].env_id)

\* The id names neither the caller nor a descendant of the caller.
Denied(envid) ==
    envid # 0 /\ (Stale(envid) \/ ~IsDescendant(K, curenv, ENVX(envid), NENV))

\* C6 as stated: whatever the other arguments, the seven calls return
\* -E_BAD_ENV and change nothing when the id is stale or names an
\* environment that is neither the caller nor created by the caller.
C6_GateAlways ==
    kstate = "user" =>
      \A envid \in IdInputs :
         NotOwn(envid) =>
            /\ Fails(sys_env_destroy(K, curenv, envid), E_BAD_ENV)
            /\ \A status \in StatusInputs :
                  Fails(sys_env_set_status(K, curenv, envid, status),
                        E_BAD_ENV)
            /\ \A tf \in TfInputs :
                  Fails(sys_env_set_trapframe(K, curenv, envid, tf), E_BAD_ENV)
            /\ \A func \in UpcallInputs :
                  Fails(sys_env_set_pgfault_upcall(K, curenv, envid, func),
                        E_BAD_ENV)
            /\ \A a \in VaPermInputs :
                  Fails(sys_page_alloc(K, curenv, envid, a[1], a[2]),
                        E_BAD_ENV)
            /\ \A a \in PageMapArgs :
                  /\ Fails(sys_page_map(K, curenv, envid, a[1], 0, a[2],
                                        a[3], NoUB), E_BAD_ENV)
                  /\ Fails(sys_page_map(K, curenv, 0, a[1], envid, a[2],
                                        a[3], NoUB), E_BAD_ENV)
            /\ \A va \in VAInputs :
                  Fails(sys_page_unmap(K, curenv, envid, va), E_BAD_ENV)

\* C6, amended: when the id is stale or names an environment that is neither
\* the caller nor a descendant of the caller, the seven calls change nothing,
\* and return -E_INVAL when an argument fails a test made before the lookup
\* (the status of sys_env_set_status; an address or the permission of
\* sys_page_alloc, sys_page_map and sys_page_unmap) and -E_BAD_ENV otherwise.
C6_Gate ==
    kstate = "user" =>
      \A envid \in IdInputs :
         Denied(envid) =>
            /\ Fails(sys_env_destroy(K, curenv, envid), E_BAD_ENV)
            /\ \A status \in StatusInputs :
                  Fails(sys_env_set_status(K, curenv, envid, status),
                        IF status \in {ENV_RUNNABLE, ENV_NOT_RUNNABLE}
                        THEN E_BAD_ENV ELSE E_INVAL)
            /\ \A tf \in TfInputs :
                  Fails(sys_env_set_trapframe(K, curenv, envid, tf), E_BAD_ENV)
            /\ \A func \in UpcallInputs :
                  Fails(sys_env_set_pgfault_upcall(K, curenv, envid, func),
                        E_BAD_ENV)
            /\ \A va \in VAInputs, perm \in PermInputs :
                  Fails(sys_page_alloc(K, curenv, envid, va, perm),
                        IF BadVA(va) \/ BadPerm(perm)
                        THEN E_INVAL ELSE E_BAD_ENV)
            /\ \A a \in PageMapArgs :
                  LET r == IF BadVA(a[1]) \/ BadVA(a[2]) \/ BadPerm(a[3])
                           THEN E_INVAL ELSE E_BAD_ENV
                  IN /\ Fails(sys_page_map(K, curenv, envid, a[1], 0,
                                           a[2], a[3], NoUB), r)
                     /\ Fails(sys_page_map(K, curenv, 0, a[1], envid,
                                           a[2], a[3], NoUB), r)
            /\ \A va \in VAInputs :
                  Fails(sys_page_unmap(K, curenv, envid, va),
                        IF BadVA(va) THEN E_INVAL ELSE E_BAD_ENV)

\* A sys_env_destroy has just been refused to a caller that has a child,
\* while an environment it did not create is alive.
C6_Witness ==
    /\ last.op = "sys_env_destroy" /\ last.ctl = "ret"
    /\ last.r = 0 - E_BAD_ENV
    /\ kstate = "user" /\ curenv = last.caller
    /\ \E B \in Slots :
          /\ envs[B].env_status # ENV_FREE
          /\ envs[B].env_parent_id = envs[curenv].env_id
    /\ \E C \in Slots :
          /\ envs[C].env_status # ENV_FREE
          /\ Denied(envs[C].env_id)

\* The permission lacks PTE_U or PTE_P, or has a bit outside PTE_USER.
Inappropriate(perm) ==
    \/ PTE_U \cap perm = {}
    \/ PTE_P \cap perm = {}
    \/ perm \ PTE_USER # {}

\* C7: sys_page_alloc and sys_page_map on the caller's own pages return
\* -E_INVAL for every permission that lacks PTE_U or PTE_P or has a bit
\* outside PTE_USER.
C7_InappropriatePermRefused ==
    kstate = "user" =>
      \A perm \in PermInputs :
         Inappropriate(perm) =>
            /\ sys_page_alloc(K, curenv, 0, VA(ProgPN, 0), perm).r
                 = 0 - E_INVAL
            /\ (PTE_P \cap ptes[curenv][ProgPN].perm # {}) =>
                 sys_page_map(K, curenv, 0, VA(ProgPN, 0), 0, VA(ProgPN, 0),
                              perm, NoUB).r = 0 - E_INVAL

\* C8: sys_page_alloc, sys_page_map and sys_page_unmap return -E_INVAL and
\* change nothing when an address is at or above UTOP or is not
\* page-aligned, whatever the other arguments; and no step of these calls
\* changes the entry of the page at UTOP in any address space.
C8_BadVaRefused ==
    /\ [](kstate = "user" =>
            \A bad \in BadVAs :
               /\ \A envid \in IdInputs :
                     /\ \A perm \in PermInputs :
                           Fails(sys_page_alloc(K, curenv, envid, bad, perm),
                                 E_INVAL)
                     /\ Fails(sys_page_unmap(K, curenv, envid, bad), E_INVAL)
               /\ \A ids \in PageMapIds, va \in GoodVAs,
                     perm \in {GoodPerm, {}} :
                     /\ Fails(sys_page_map(K, curenv, ids[1], bad, ids[2],
                                           va, perm, NoUB), E_INVAL)
                     /\ Fails(sys_page_map(K, curenv, ids[1], va, ids[2],
                                           bad, perm, NoUB), E_INVAL))
    /\ [][last'.op \in {"sys_page_alloc", "sys_page_map", "sys_page_unmap"}
            => \A e \in Slots : ptes'[e][UTOP_PN] = ptes[e][UTOP_PN]]_vars

\* A sys_page_unmap has just returned -E_INVAL, which it does for a bad
\* address only, and the caller's page is still mapped.
C8_Witness ==
    /\ last.op = "sys_page_unmap" /\ last.ctl = "ret"
    /\ last.r = 0 - E_INVAL
    /\ PTE_P \cap ptes[last.caller][ProgPN].perm # {}
    /\ \A e \in Slots : ptes[e][UTOP_PN] = NoPTE

\* C9: a sys_page_map or sys_ipc_try_send that returns 0 and leaves a new
\* writable mapping leaves it of a frame of which a writable mapping existed
\* before the call.
C9_NoWriteEscalation ==
    [][(last'.op \in {"sys_page_map", "sys_ipc_try_send"}
          /\ last'.ctl = "ret" /\ last'.r = 0) =>
         \A e \in Slots, pn \in UserPNs :
            (PTE_W \cap ptes'[e][pn].perm # {}
               /\ ptes'[e][pn] # ptes[e][pn]) =>
               \E s \in Slots, q \in UserPNs :
                  /\ ptes[s][q].pa = ptes'[e][pn].pa
                  /\ PTE_P \cap ptes[s][q].perm # {}
                  /\ PTE_W \cap ptes[s][q].perm # {}
      ]_vars

\* C10: sys_page_map returns -E_INVAL and changes nothing when both ids
\* pass the lookup and no page is present at srcva in the source, be there
\* a page table for srcva or none.
C10_UnmappedSourceRefused ==
    kstate = "user" =>
      \A ids \in PageMapIds, srcva \in GoodVAs, dstva \in GoodVAs :
         LET s == envid2env(K, curenv, ids[1], TRUE)
             d == envid2env(K, curenv, ids[2], TRUE)
         IN (s.r = 0 /\ d.r = 0
               /\ PTE_P \cap ptes[s.e][srcva.pn].perm = {}) =>
              \A ub \in UBChoices \cup {NoUB} :
                 Fails(sys_page_map(K, curenv, ids[1], srcva, ids[2], dstva,
                                    GoodPerm, ub), E_INVAL)

\* The frames that hold a page directory or a page table.
TableFrames ==
    ({envs[e].env_pgdir : e \in Slots}
       \cup {pgdir[e][x] : e \in Slots, x \in UserPDXs}) \ {0}

\* The user mappings of frame f, over all environments.
MappingsOf(f) ==
    {<<e, pn>> \in Slots \X UserPNs :
        PTE_P \cap ptes[e][pn].perm # {} /\ ptes[e][pn].pa = f}

\* C11: in every reachable state the reference count of each frame, page
\* directories and page tables aside, is the number of user mappings of the
\* frame over all environments, and the frame is free exactly when it has
\* no mapping.
C11_RefcountIsMappings ==
    \A f \in Frames \ TableFrames :
       /\ pp_ref[f] = Cardinality(MappingsOf(f))
       /\ (f \in page_free_list) <=> (MappingsOf(f) = {})

WriteCow(perm) == PTE_W \cap perm # {} /\ PTE_COW \cap perm # {}

\* C12 as stated: no user mapping has both PTE_W and PTE_COW, in any
\* reachable state.
C12_NoWriteCow ==
    \A e \in Slots, pn \in UserPNs : ~WriteCow(ptes[e][pn].perm)

\* C12: a mapping with both PTE_W and PTE_COW appears only in a step of
\* sys_page_alloc, sys_page_map or sys_ipc_try_send whose perm argument has
\* both bits.
C12_WriteCowOnlyAsAsked ==
    [][(\E e \in Slots, pn \in UserPNs :
           WriteCow(ptes'[e][pn].perm) /\ ptes'[e][pn] # ptes[e][pn]) =>
         /\ last'.op \in {"sys_page_alloc", "sys_page_map",
                          "sys_ipc_try_send"}
         /\ last'.ctl = "ret" /\ last'.r = 0
         /\ WriteCow(last'.arg.perm)
      ]_vars

\* A sys_page_map has just left, in another environment than the caller, a
\* mapping with both bits.
C12_Witness ==
    /\ last.op = "sys_page_map" /\ last.ctl = "ret" /\ last.r = 0
    /\ \E e \in Slots \ {last.caller}, pn \in UserPNs :
          WriteCow(ptes[e][pn].perm)

\* C13: a sys_page_alloc that took a frame and returns -E_NO_MEM, its
\* page_insert having failed, leaves the free pool as it was, every free
\* frame with reference count 0, and every address space as it was.
C13_FailedAllocFreesFrame ==
    [][(last'.op = "sys_page_alloc" /\ last'.ctl = "ret"
          /\ last'.r = 0 - E_NO_MEM /\ page_free_list # {}) =>
         /\ page_free_list' = page_free_list
         /\ \A f \in page_free_list : pp_ref'[f] = 0
         /\ ptes' = ptes
         /\ pgdir' = pgdir
      ]_vars

\* A lookup of a nonzero id resolves to the slot that holds exactly this id
\* and is not free, or fails with -E_BAD_ENV.
LookupIsExact ==
    kstate = "user" =>
      \A id \in IdInputs \ {0}, checkperm \in BOOLEAN :
         LET l == envid2env(K, curenv, id, checkperm)
         IN IF l.r = 0
            THEN envs[l.e].env_id = id /\ envs[l.e].env_status # ENV_FREE
            ELSE l.r = 0 - E_BAD_ENV

Forks(c) ==
    /\ envs'[c].env_id = last'.r
    /\ envs'[c].env_parent_id = envs[curenv].env_id
    /\ envs'[c].env_status = ENV_NOT_RUNNABLE
    /\ TfOf(envs'[c]) = [TfOf(envs[curenv]) EXCEPT !.reg_eax = 0]
    /\ envs'[curenv].reg_eax = last'.r
    /\ c \in fresh'

\* Slot c runs in user mode after the step.
Resumes(c) == kstate' = "user" /\ curenv' = c

\* A child that has not run yet runs only once it is ENV_RUNNABLE, and it
\* becomes ENV_RUNNABLE only in a sys_env_set_status of an environment that
\* passes the permission check on it.
StartedByPermitted(c) ==
    /\ Resumes(c) => envs[c].env_status = ENV_RUNNABLE
    /\ (envs[c].env_status = ENV_NOT_RUNNABLE
          /\ envs'[c].env_status = ENV_RUNNABLE) =>
         /\ last'.op = "sys_env_set_status" /\ last'.r = 0
         /\ IsDescendant(K, curenv, c, NENV)

\* C15 as stated: a successful sys_exofork leaves the child as Forks says;
\* the child runs only after a permitted environment made it ENV_RUNNABLE;
\* and when it first runs its saved eax is 0.
C15_ForkReturnsZeroInChild ==
    [][/\ (last'.op = "sys_exofork" /\ last'.ctl = "ret" /\ last'.r > 0)
            => Forks(ENVX(last'.r))
       /\ \A c \in fresh :
             /\ StartedByPermitted(c)
             /\ Resumes(c) => envs'[c].reg_eax = 0
      ]_vars

\* C15: the same, but that the child first runs with the frame
\* sys_exofork left it, eax 0, unless a sys_env_set_trapframe of an
\* environment that passes the permission check replaced the frame before:
\* until the child runs nothing else changes its saved frame.
C15_ForkLeavesChildFrame ==
    [][/\ (last'.op = "sys_exofork" /\ last'.ctl = "ret" /\ last'.r > 0)
            => Forks(ENVX(last'.r))
       /\ \A c \in fresh :
             /\ StartedByPermitted(c)
             /\ Resumes(c) => TfOf(envs'[c]) = TfOf(envs[c])
             /\ (envs'[c].env_status # ENV_FREE
                   /\ TfOf(envs'[c]) # TfOf(envs[c])) =>
                  /\ last'.op = "sys_env_set_trapframe" /\ last'.r = 0
                  /\ IsDescendant(K, curenv, c, NENV)
      ]_vars

\* A sys_exofork has just returned the id of a child that holds the
\* caller's eip, an eax of 0, and has not run.
C15_Witness ==
    /\ last.op = "sys_exofork" /\ last.ctl = "ret" /\ last.r > 0
    /\ ENVX(last.r) \in fresh
    /\ envs[ENVX(last.r)].env_status = ENV_NOT_RUNNABLE
    /\ envs[ENVX(last.r)].reg_eax = 0
    /\ envs[ENVX(last.r)].tf_eip = envs[last.caller].tf_eip
    /\ envs[last.caller].tf_eip # NULL
    /\ envs[last.caller].reg_eax = last.r

\* C16: a sys_env_set_trapframe that returns 0 leaves in the target's saved
\* frame the user code segment at privilege 3, the interrupt flag set and
\* the I/O privilege level of an ordinary environment, 0, whatever frame
\* the caller supplied.
C16_FrameKeepsUserPrivilege ==
    [][(last'.op = "sys_env_set_trapframe" /\ last'.ctl = "ret"
          /\ last'.r = 0) =>
         \A envid \in IdInputs, tf \in TfInputs :
            LET res == sys_env_set_trapframe(K, curenv, envid, tf)
                t == SlotOf(envid)
            IN (res.ctl = "ret" /\ res.r = 0
                  /\ IsCall("sys_env_set_trapframe", res)) =>
                 /\ envs'[t].tf_cs = GD_UT_3
                 /\ FL_IF \subseteq envs'[t].tf_eflags
                 /\ envs'[t].tf_eflags \cap FL_IOPL_MASK = {}
      ]_vars

-----------------------------------------------------------------------------
\* Page faults and the other traps (kern/trap.c), under SpecTrap.

UserPageFault ==
    /\ last.op = "trap"
    /\ last.tf.tf_trapno = T_PGFLT
    /\ last.tf.tf_cs = GD_UT_3

\* C17: on a page fault from user mode, an environment without an upcall is
\* destroyed; one with an upcall whose frame area it may write gets the user
\* trap frame there, holding the faulting address, the error code and the
\* trap-time eax, eip, eflags and esp, and runs on with its saved esp at the
\* frame and its saved eip at the upcall.
C17_PageFaultUpcall ==
    [][UserPageFault' =>
        LET c == last'.caller
            e == envs[c]
            utf_va == UtfVa(last'.tf.tf_esp)
        IN /\ e.env_pgfault_upcall = 0 => envs'[c].env_status = ENV_FREE
           /\ ( /\ e.env_pgfault_upcall # 0
                /\ user_mem_check(K, c, utf_va, UTF_SIZE,
                                  PTE_P \cup PTE_U \cup PTE_W) )
              => /\ last'.utf = [va |-> utf_va,
                                 utf_fault_va |-> last'.tf.cr2,
                                 utf_err |-> last'.tf.tf_err,
                                 utf_eax |-> e.reg_eax,
                                 utf_eip |-> e.tf_eip,
                                 utf_eflags |-> e.tf_eflags,
                                 utf_esp |-> last'.tf.tf_esp]
                 /\ kstate' = "user"
                 /\ curenv' = c
                 /\ envs'[c].env_status = ENV_RUNNABLE
                 /\ envs'[c].tf_esp = utf_va
                 /\ envs'[c].tf_eip = AddrVA(e.env_pgfault_upcall)
    ]_vars

\* An upcall was entered for a fault at a non-null address.
C17_Witness ==
    /\ UserPageFault
    /\ last.utf.va # NULL
    /\ last.utf.utf_fault_va = VA(ProgPN, 8)
    /\ kstate = "user"
    /\ curenv = last.caller

\* An environment without an upcall was destroyed by its fault.
C17_WitnessDestroyed ==
    /\ UserPageFault
    /\ last.utf.va = NULL
    /\ envs[last.caller].env_status = ENV_FREE

\* The trap-time esp lies in [UXSTACKTOP - PGSIZE, UXSTACKTOP).
OnExceptionStack(esp) ==
    /\ VALeq(VASub(UXSTACKTOP, PGSIZE), esp)
    /\ VALeq(esp, UXSTACKTOP)
    /\ esp # UXSTACKTOP

\* C18: the user trap frame is placed at esp - 4 - sizeof(UTrapframe) when
\* the trap-time esp lies in [UXSTACKTOP - PGSIZE, UXSTACKTOP), and at
\* UXSTACKTOP - sizeof(UTrapframe) for every other esp, UXSTACKTOP included.
C18_FramePlacement ==
    [][(UserPageFault' /\ last'.utf.va # NULL) =>
        last'.utf.va =
            IF OnExceptionStack(last'.tf.tf_esp)
            THEN VASub(VASub(last'.tf.tf_esp, 4), UTF_SIZE)
            ELSE VASub(UXSTACKTOP, UTF_SIZE)
    ]_vars

\* C19: whenever an environment runs in user mode it is ENV_RUNNABLE: the
\* end of a trap resumes the current environment only if it still is, and
\* otherwise the scheduler picks a runnable one.
C19_OnlyRunnableResumed ==
    kstate = "user" =>
        /\ curenv \in Slots
        /\ envs[curenv].env_status = ENV_RUNNABLE

\* The environment that trapped is no longer runnable and another one runs.
C19_Witness ==
    /\ kstate = "user"
    /\ last.caller \in Slots
    /\ envs[last.caller].env_status = ENV_NOT_RUNNABLE
    /\ curenv # last.caller

\* The last trap was one trap_dispatch has no case for.
UnhandledTrap ==
    /\ last.op = "trap"
    /\ last.tf.tf_trapno \notin
          {T_PGFLT, T_BRKPT, T_SYSCALL, IRQ_OFFSET + IRQ_TIMER,
           IRQ_OFFSET + IRQ_SPURIOUS}

\* C20: a trap trap_dispatch has no case for destroys the current
\* environment and calls the scheduler when it comes from user mode; when it
\* comes from the kernel it panics and leaves the environment table alone.
C20_UnhandledTrap ==
    [][UnhandledTrap' =>
        IF last'.tf.tf_cs = GD_UT_3
        THEN /\ envs'[last'.caller].env_status = ENV_FREE
             /\ last'.ctl = "sched"
             /\ kstate' # "panic"
             /\ kstate' = "user" => curenv' # last'.caller
        ELSE /\ kstate' = "panic"
             /\ envs' = envs
    ]_vars

\* A general protection fault in user mode destroyed the environment and
\* another one runs.
C20_Witness ==
    /\ UnhandledTrap
    /\ last.tf.tf_trapno = T_GPFLT
    /\ last.tf.tf_cs = GD_UT_3
    /\ envs[last.caller].env_status = ENV_FREE
    /\ kstate = "user"

\* A divide error in the kernel stopped it.
C20_WitnessKernel ==
    /\ UnhandledTrap
    /\ last.tf.tf_trapno = T_DIVIDE
    /\ last.tf.tf_cs = GD_KT
    /\ kstate = "panic"

-----------------------------------------------------------------------------
\* The scheduler (kern/sched.c), under SpecSched.

\* The last kernel entry was a call of sched_yield.
Scheduled == last.op \in {"sched_yield", "timer"}

\* The slot the scheduler starts after.
PreviousSlot == IF curenv = NoEnv THEN 0 ELSE ENVX(envs[curenv].env_id)

\* The i-th slot of the circular order k+1, ..., NENV-1, 1, ..., k.
CircularOrder(k, i) == ((k + i - 1) % (NENV - 1)) + 1

\* The slot round-robin picks after slot k in table es, NoEnv if none is
\* runnable.
RoundRobin(es, k) ==
    LET R == {i \in 1 .. (NENV - 1) :
                es[CircularOrder(k, i)].env_status = ENV_RUNNABLE}
    IN IF R # {} THEN CircularOrder(k, Min(R))
       ELSE IF es[0].env_status = ENV_RUNNABLE THEN 0
       ELSE NoEnv

\* C21: sched_yield runs the first runnable environment in the circular
\* order after the previous slot, slot 0 only when no other is runnable, and
\* enters the monitor when none is.
C21_RoundRobin ==
    [][Scheduled' =>
        LET c == RoundRobin(envs, PreviousSlot)
        IN IF c = NoEnv THEN kstate' = "monitor"
           ELSE kstate' = "user" /\ curenv' = c
    ]_vars

\* C30: sched_yield always ends by running an environment or entering the
\* monitor.
C30_SchedTerminates ==
    [][Scheduled' => kstate' \in {"user", "monitor"}]_vars

-----------------------------------------------------------------------------
\* sys_page_alloc followed by sys_page_unmap, under SpecPages.

\* The page-aligned addresses below UTOP of the round trip.
RoundTripVAs == GoodVAs \cup {VASub(UXSTACKTOP, PGSIZE)}

\* The slot envid names for the caller.
TargetOf(envid) == envid2env(K, curenv, envid, TRUE).e

\* The memory state after sys_page_unmap(envid, va) that follows
\* sys_page_alloc(envid, va, perm).
RoundTrip(envid, va, perm) ==
    sys_page_unmap(sys_page_alloc(K, curenv, envid, va, perm).k, curenv,
                   envid, va).k

AllocSucceeds(envid, va, perm) ==
    /\ kstate = "user"
    /\ sys_page_alloc(K, curenv, envid, va, perm).ctl = "ret"
    /\ sys_page_alloc(K, curenv, envid, va, perm).r = 0

\* C25: a sys_page_alloc followed by sys_page_unmap of the same page
\* restores the target's mappings and every frame's reference count.
C25_RoundTrip ==
    \A envid \in IdInputs, va \in RoundTripVAs, perm \in PermInputs :
       AllocSucceeds(envid, va, perm) =>
          /\ RoundTrip(envid, va, perm).ptes[TargetOf(envid)]
                = ptes[TargetOf(envid)]
          /\ RoundTrip(envid, va, perm).pp_ref = pp_ref

\* C25, amended: when va was not mapped in the target, the round trip
\* restores every mapping, the environment table, and every reference count
\* and the free pool but for the frame of a page table sys_page_alloc had to
\* create for va, which stays in the target's page directory.
C25_RoundTripUnmapped ==
    \A envid \in IdInputs, va \in RoundTripVAs, perm \in PermInputs :
       ( /\ AllocSucceeds(envid, va, perm)
         /\ PTE_P \cap PteOf(K, TargetOf(envid), va.pn).perm = {} )
       => LET e == TargetOf(envid)
              after == RoundTrip(envid, va, perm)
              pt == after.pgdir[e][PDX(va.pn)]
          IN /\ after.ptes = ptes
             /\ after.envs = envs
             /\ IF HasPT(K, e, va.pn)
                THEN after = K
                ELSE /\ pt \in page_free_list
                     /\ after.pgdir = [pgdir EXCEPT ![e][PDX(va.pn)] = pt]
                     /\ after.pp_ref = [pp_ref EXCEPT ![pt] = 1]
                     /\ after.free = page_free_list \ {pt}

\* Slot 1 got page 0 and its page table by sys_page_alloc and lost the page
\* again by sys_page_unmap: the page table stays.
C25_Witness ==
    /\ nsteps = 2
    /\ last.op = "sys_page_unmap"
    /\ last.r = 0
    /\ pgdir[1][PDX(0)] # 0
    /\ ptes[1][0] = NoPTE
    /\ pp_ref[pgdir[1][PDX(0)]] = 1

-----------------------------------------------------------------------------
\* More of the rendezvous, under Spec.

\* C28: when the receiver passed to sys_ipc_recv a page-aligned dstva below
\* UTOP, address 0 included, a send to it that returns 0 and proposes a
\* page (srcva below UTOP) maps the sender's frame at that dstva and records
\* perm.
C28_AnyDstvaReceives ==
    [][( /\ last.op = "sys_ipc_recv"
         /\ last.ctl = "sched"
         /\ ~AboveUTOP(last.arg.va)
         /\ last'.op = "sys_ipc_try_send"
         /\ last'.ctl = "ret"
         /\ last'.r = 0
         /\ ~AboveUTOP(last'.arg.va)
         /\ envs[last.caller].env_ipc_recving
         /\ ~envs'[last.caller].env_ipc_recving )
       => Transferred(last.caller, last.arg.va.pn, last'.arg.va,
                      last'.arg.perm)
      ]_vars

IpcFields(es, R) ==
    <<es[R].env_ipc_from, es[R].env_ipc_value, es[R].env_ipc_perm>>

-----------------------------------------------------------------------------
\* The library's ipc_send (lib/ipc.c), under SpecIpc.

\* The step delivers a message of slot e to some environment.
DeliversFrom(e) ==
    \E R \in Slots :
       /\ envs[R].env_ipc_recving
       /\ ~envs'[R].env_ipc_recving
       /\ envs'[R].env_ipc_from = envs[e].env_id
       /\ envs'[R].env_ipc_value = user.env[e].val

\* The step is a system call op of slot e.
CallBy(e, op) == last'.op = op /\ last'.caller = e /\ curenv = e

\* C27: ipc_send returns only in a step in which its sys_ipc_try_send
\* returned 0 and delivered its one message; while it has not returned none
\* of its steps delivers; after -E_IPC_NOT_RECV its next step is sys_yield
\* and the one after that the next try; any other error ends it in panic
\* for good.
C27_SendRetriesUntilDelivered ==
    [][\A e \in Slots :
         LET u == user.env[e]
             v == user'.env[e]
         IN /\ (u.pc \in {"try", "yield"} /\ v.pc = "done") =>
                 /\ u.pc = "try"
                 /\ CallBy(e, "sys_ipc_try_send")
                 /\ last'.ctl = "ret" /\ last'.r = 0
                 /\ DeliversFrom(e)
                 /\ u.sent = 0 /\ v.sent = 1
            /\ (u.pc \in {"try", "yield"} /\ v.pc # "done" /\ curenv = e) =>
                 ~DeliversFrom(e)
            /\ (u.pc = "try" /\ CallBy(e, "sys_ipc_try_send")
                  /\ last'.ctl = "ret" /\ last'.r = 0 - E_IPC_NOT_RECV) =>
                 v.pc = "yield"
            /\ (u.pc = "yield" /\ v.pc \notin {"yield", "none"}) =>
                 /\ CallBy(e, "sys_yield")
                 /\ v.pc = "try"
            /\ (u.pc = "try" /\ CallBy(e, "sys_ipc_try_send")
                  /\ last'.ctl = "ret" /\ last'.r < 0
                  /\ last'.r # 0 - E_IPC_NOT_RECV) =>
                 v.pc = "panic"
            /\ u.pc = "panic" => v.pc \in {"panic", "none"}
      ]_vars

\* An ipc_send has returned after a try that found no receiver, a yield and
\* a try that delivered.
C27_Witness ==
    \E e \in Slots :
       /\ user.env[e].pc = "done"
       /\ user.env[e].sent = 1
       /\ last.op = "sys_ipc_try_send" /\ last.caller = e /\ last.r = 0
       /\ nsteps >= 1
       /\ \E R \in Slots :
             /\ envs[R].env_ipc_from = envs[e].env_id
             /\ envs[R].env_ipc_value = 42

\* An ipc_send waits in sys_yield after a try that found no receiver.
C27_WitnessYield ==
    \E e \in Slots :
       /\ user.env[e].pc = "yield"
       /\ last.op = "sys_ipc_try_send" /\ last.caller = e
       /\ last.r = 0 - E_IPC_NOT_RECV

\* An ipc_send has panicked on an error other than -E_IPC_NOT_RECV.
C27_WitnessPanic ==
    \E e \in Slots :
       /\ user.env[e].pc = "panic"
       /\ last.op = "sys_ipc_try_send" /\ last.caller = e /\ last.r < 0

-----------------------------------------------------------------------------
\* The E100 driver (kern/e100.c), under SpecNic.

\* A command block is free when it is not the one the device waits at
\* (cb_to_use) and the device has completed whatever was queued in it.
FreeCB(nic, i) == i # nic.cb_to_use /\ ~nic.cbs[i].dev
\* A receive descriptor is pending when the device has filled it and the
\* driver has not handed it out.
PendingRFD(nic, i) == nic.rfds[i].status = RFD_COMPLETE

\* The step is a call op of the driver.
NicCall(op) == e100'.calls = e100.calls + 1 /\ e100'.op = op

\* The call left the command blocks and cb_to_use as they were.
TxUntouched == e100'.cbs = e100.cbs /\ e100'.cb_to_use = e100.cb_to_use
\* The call left the descriptors and rfd_to_use as they were.
RxUntouched == e100'.rfds = e100.rfds /\ e100'.rfd_to_use = e100.rfd_to_use

\* e100_rx returns RFA_EMPTY, consuming no descriptor, exactly when no
\* completed descriptor is pending; otherwise it hands out the oldest one.
C26_RxBackpressure ==
    [][NicCall("e100_rx") =>
         /\ (e100'.ret = 0 - E_RFA_EMPTY) <=>
               (\A i \in Ring : ~PendingRFD(e100, i))
         /\ e100'.ret = 0 - E_RFA_EMPTY => RxUntouched
         /\ e100'.ret # 0 - E_RFA_EMPTY =>
               /\ PendingRFD(e100, e100.rfd_to_use)
               /\ e100'.ret = e100.rfds[e100.rfd_to_use].data
               /\ ~PendingRFD(e100', e100.rfd_to_use)
      ]_vars

\* e100_xmit_frame returns CBL_FULL only when no command block is free.
C26_TxFullOnlyWhenFull ==
    [][(NicCall("e100_xmit_frame") /\ e100'.ret = 0 - E_CBL_FULL) =>
         (\A i \in Ring : ~FreeCB(e100, i))]_vars

\* e100_xmit_frame writes no command block that the device has not
\* completed.
C26_TxKeepsQueued ==
    [][NicCall("e100_xmit_frame") =>
         \A i \in Ring :
            e100.cbs[i].dev => e100'.cbs[i].data = e100.cbs[i].data]_vars

\* C26: e100_xmit_frame returns CBL_FULL, writing no command block and not
\* moving cb_to_use, exactly when no command block is free after reclaiming
\* the completed ones; e100_rx returns RFA_EMPTY, consuming no descriptor,
\* exactly when no completed receive descriptor is pending.
C26_Backpressure ==
    [][/\ NicCall("e100_xmit_frame") =>
            /\ (e100'.ret = 0 - E_CBL_FULL) <=>
                  (\A i \in Ring : ~FreeCB(e100, i))
            /\ e100'.ret = 0 - E_CBL_FULL => TxUntouched
       /\ NicCall("e100_rx") =>
            /\ (e100'.ret = 0 - E_RFA_EMPTY) <=>
                  (\A i \in Ring : ~PendingRFD(e100, i))
            /\ e100'.ret = 0 - E_RFA_EMPTY => RxUntouched
      ]_vars

-----------------------------------------------------------------------------
\* The library's fork (lib/fork.c), under SpecFork.

\* The slot of the environment that calls fork: the one the kernel starts.
ForkParent == Boot.curenv

\* Both the parent and its child have returned from fork.
BothReturned ==
    /\ user.env[ForkParent].pc = "done"
    /\ user.env[ForkParent].ret # 0
    /\ user.env[ENVX(user.env[ForkParent].ret)].pc = "done"

\* The places of a parent in fork between sys_exofork and its return.
ForkPcs == {"duppage", "duppage_self", "xstack", "upcall", "status"}

\* Page pn of slot e is mapped writable and not copy-on-write.
WritablePrivate(e, pn) ==
    /\ PUW \subseteq PteOf(K, e, pn).perm
    /\ PTE_COW \cap PteOf(K, e, pn).perm = {}

\* C24: from sys_exofork on the child is ENV_NOT_RUNNABLE and does not run;
\* it becomes ENV_RUNNABLE only by the sys_env_set_status that ends the
\* parent's fork, when every present page of the parent below the exception
\* stack is mapped in the child, the child has its exception stack and its
\* upcall is registered; fork then returns the child's id in the parent, and
\* 0 in the child.
C24_ForkOrdering ==
    [][\A p \in Slots :
         LET u == user.env[p]
             c == ENVX(u.child)
         IN /\ u.pc \in ForkPcs =>
                 /\ envs[c].env_id = u.child
                 /\ envs[c].env_status = ENV_NOT_RUNNABLE
                 /\ ~(kstate = "user" /\ curenv = c)
                 /\ user.env[c].pc = "child"
                 /\ envs'[c].env_status = ENV_RUNNABLE =>
                       /\ u.pc = "status"
                       /\ last'.op = "sys_env_set_status"
                       /\ last'.caller = p
                       /\ \A pn \in DupPages(K, p) :
                             /\ PTE_P \subseteq PteOf(K, c, pn).perm
                             /\ ptes[c][pn].pa = ptes[p][pn].pa
                       /\ WritablePrivate(c, XSTACK_PN)
                       /\ envs[c].env_pgfault_upcall = pgfault_upcall
                       /\ user'.env[p].pc = "done"
                       /\ user'.env[p].ret = envs[c].env_id
            /\ (u.pc = "child_env" /\ user'.env[p].pc = "done") =>
                 user'.env[p].ret = 0
            /\ (u.pc = "child" /\ kstate = "user" /\ curenv = p) =>
                 envs[p].reg_eax = 0
      ]_vars

\* Fork has returned the child's id in the parent and 0 in the child, which
\* has every page of its parent.
C24_Witness ==
    /\ BothReturned
    /\ LET u == user.env[ForkParent]
           c == ENVX(u.ret)
       IN /\ c # ForkParent
          /\ envs[c].env_id = u.ret
          /\ envs[c].env_parent_id = envs[ForkParent].env_id
          /\ envs[c].env_status = ENV_RUNNABLE
          /\ user.env[c].ret = 0
          /\ \A pn \in {0, ProgPN, XSTACK_PN} :
                PTE_P \subseteq PteOf(K, c, pn).perm

\* The slots that fork made and that still hold the child it made.
ForkChildren ==
    {ENVX(user.env[p].child) : p \in {q \in Slots :
        /\ user.env[q].pc \in ForkPcs \cup {"done", "panic"}
        /\ user.env[q].child # 0
        /\ envs[ENVX(user.env[q].child)].env_id = user.env[q].child}}

\* The exception stack of child c is a frame of its own.
FreshXstack(c) ==
    /\ pp_ref[ptes[c][XSTACK_PN].pa] = 1
    /\ \A e \in Slots \ {c} :
          PTE_P \subseteq PteOf(K, e, XSTACK_PN).perm =>
             ptes[e][XSTACK_PN].pa # ptes[c][XSTACK_PN].pa

\* C23 as stated: at every point from the call of fork on, the exception
\* stack page of the parent and of the child is mapped writable and not
\* copy-on-write, and the child's is a frame of its own.
C23_XstackAlwaysMapped ==
    /\ WritablePrivate(ForkParent, XSTACK_PN)
    /\ \A c \in ForkChildren :
          WritablePrivate(c, XSTACK_PN) /\ FreshXstack(c)

\* The child c has been given its exception stack: its parent is past
\* line 162 of fork.
PastXstack(c) ==
    \E p \in Slots :
       /\ user.env[p].child = envs[c].env_id
       /\ user.env[p].pc \in {"upcall", "status", "done"}

\* C23, amended: the exception stack page of the parent is mapped writable
\* and not copy-on-write at every point from the call of fork on; the
\* child's is never copy-on-write, and from the sys_page_alloc of line 162
\* on, so whenever the child may run, it is mapped writable in a frame of
\* its own.
C23_XstackImmune ==
    /\ WritablePrivate(ForkParent, XSTACK_PN)
    /\ \A c \in ForkChildren :
          /\ PTE_COW \cap PteOf(K, c, XSTACK_PN).perm = {}
          /\ (PastXstack(c) \/ envs[c].env_status = ENV_RUNNABLE) =>
                WritablePrivate(c, XSTACK_PN) /\ FreshXstack(c)

\* Parent and child have each written the program's page after fork, so
\* each has handled a copy-on-write fault, and their exception stacks are
\* writable, not copy-on-write and different frames.
C23_Witness ==
    /\ BothReturned
    /\ LET c == ENVX(user.env[ForkParent].ret)
       IN /\ \A e \in {ForkParent, c} :
                /\ user.env[e].stores = 1
                /\ user.env[e].at = ProgPN
                /\ WritablePrivate(e, ProgPN)
                /\ WritablePrivate(e, XSTACK_PN)
          /\ ptes[c][XSTACK_PN].pa # ptes[ForkParent][XSTACK_PN].pa
          /\ ptes[c][ProgPN].pa # ptes[ForkParent][ProgPN].pa

\* The pages below UTOP but the exception stack.
SharedPNs == UserPNs \ {XSTACK_PN}

\* What slot e reads at page pn in this state.
Reads(e, pn) == View(K, user.mem, e, pn)

\* Fork has returned in the parent and in its child c, and neither has
\* written since.
JustForked(c) ==
    /\ BothReturned
    /\ c = ENVX(user.env[ForkParent].ret)
    /\ user.env[ForkParent].stores = 0
    /\ user.env[c].stores = 0
    /\ user.env[ForkParent].hpc = "none"
    /\ user.env[c].hpc = "none"

\* A step in which the current environment writes memory.
Writes == kstate = "user" /\ user'.mem # user.mem /\ ptes' = ptes

\* A write changes what no other environment reads.
WriteIsPrivate ==
    Writes =>
       \A o \in Slots \ {curenv}, pn \in UserPNs :
          View(K, user'.mem, o, pn) = Reads(o, pn)

\* After fork an environment reads at the program's page the byte 0xAA that
\* was there at the fork until it writes one itself, and then the byte it
\* wrote, whatever the other one writes.
ReadsOwnBytes ==
    \A e \in Slots :
       (user.env[e].pc = "done" /\ user.env[e].hpc = "none") =>
          /\ (user.env[e].stores = 0 \/ user.env[e].at # ProgPN) =>
                Reads(e, ProgPN).c.data = 170
          /\ user.env[e].stores >= 1 =>
                Reads(e, user.env[e].at).c.data = user.env[e].byte

\* C22 as stated: after fork parent and child read the same contents at
\* every page below UTOP but the exception stack, and a write by one of
\* them changes what the writer reads only.
C22_ForkViewsIdentical ==
    [][/\ \A c \in Slots :
             JustForked(c) =>
                \A pn \in SharedPNs : Reads(ForkParent, pn) = Reads(c, pn)
       /\ WriteIsPrivate
       /\ ReadsOwnBytes
      ]_vars

\* C22, amended: after fork parent and child read the same at every page
\* below UTOP but the exception stack, except for the library's variable
\* env, which points at the child's own record in the child; a write by one
\* of them changes what the writer reads only: each reads 0xAA until it
\* writes, then the byte it wrote.
C22_ForkViewsIdenticalButEnv ==
    [][/\ \A c \in Slots :
             JustForked(c) =>
                /\ \A pn \in SharedPNs :
                      /\ Reads(ForkParent, pn).mapped = Reads(c, pn).mapped
                      /\ Reads(ForkParent, pn).c.data = Reads(c, pn).c.data
                      /\ pn # ProgPN =>
                            Reads(ForkParent, pn) = Reads(c, pn)
                /\ Reads(ForkParent, ProgPN).c.env = ForkParent
                /\ Reads(c, ProgPN).c.env = c
       /\ WriteIsPrivate
       /\ ReadsOwnBytes
      ]_vars

\* The parent has written 0xBB over 0xAA and reads it, while the child,
\* which has returned from fork and written nothing, reads 0xAA.
C22_Witness ==
    /\ BothReturned
    /\ LET c == ENVX(user.env[ForkParent].ret)
       IN /\ user.env[ForkParent].stores = 1
          /\ user.env[ForkParent].at = ProgPN
          /\ user.env[ForkParent].byte = 187
          /\ Reads(ForkParent, ProgPN).c.data = 187
          /\ user.env[c].stores = 0
          /\ Reads(c, ProgPN).c.data = 170

\* The child has written 0xBB and reads it, while its parent reads 0xAA.
C22_WitnessChild ==
    /\ BothReturned
    /\ LET c == ENVX(user.env[ForkParent].ret)
       IN /\ user.env[c].stores = 1
          /\ user.env[c].at = ProgPN
          /\ Reads(c, ProgPN).c.data = 187
          /\ user.env[ForkParent].stores = 0
          /\ Reads(ForkParent, ProgPN).c.data = 170

-----------------------------------------------------------------------------
\* Fairness of the scheduler, under SpecFair.

Runnable(e) == envs[e].env_status = ENV_RUNNABLE
Running(e) == kstate = "user" /\ curenv = e

\* C31: with the timer interrupting again and again, every environment of
\* slots 1..NENV-1 that stays RUNNABLE is run again and again.
C31_Fairness ==
    \A e \in 1 .. (NENV - 1) : <>[]Runnable(e) => []<>Running(e)

\* The same as long as the scheduler's search stays inside the table.
C31_FairInsideTable ==
    \A e \in 1 .. (NENV - 1) :
       <>[]Runnable(e) /\ [](kstate # "crash") => []<>Running(e)

-----------------------------------------------------------------------------
\* The receiving flag and the status of an environment, under Spec.

\* Environment e has asked for a message and got none yet.
Waits(e) == envs[e].env_status # ENV_FREE /\ envs[e].env_ipc_recving

\* Environment e is off the processor and the scheduler passes it over.
Asleep(e) == envs[e].env_status = ENV_NOT_RUNNABLE /\ ~Running(e)

C32_SendSparesRunnable ==
    [][SendReturns(0) =>
         \A R \in Slots :
            IpcFields(envs', R) # IpcFields(envs, R) =>
               envs[R].env_status = ENV_NOT_RUNNABLE
      ]_vars

-----------------------------------------------------------------------------
\* The rendezvous of ipc_send and ipc_recv, under SpecMeet.

\* Environment s is in ipc_send.
Sending(s) == user.env[s].pc \in {"try", "yield"}

\* The ipc_send of s has returned and an ipc_recv of r has returned the
\* value and stored the id of s.
Met(s, r) ==
    /\ user.env[s].pc = "done"
    /\ user.env[s].sent = 1
    /\ user.env[r].pc = "none"
    /\ user.env[r].from = envs[s].env_id
    /\ user.env[r].ret = user.env[s].val

\* C33: the ipc_send returns and the receiver's ipc_recv returns with the
\* sender's id and value.
C33_Rendezvous ==
    \A s \in Slots : Sending(s) ~> (\E r \in Slots \ {s} : Met(s, r))

\* The same as long as the scheduler's search stays inside the table.
C33_RendezvousInsideTable ==
    \A s \in Slots :
       [](kstate # "crash") =>
          (Sending(s) ~> (\E r \in Slots \ {s} : Met(s, r)))

-----------------------------------------------------------------------------
\* Overflow of the user exception stack, under SpecTrap.

\* The frame of UTF_SIZE bytes at va lies in the exception stack page.
InExceptionStack(va) ==
    va.pn = XSTACK_PN /\ va.off + UTF_SIZE <= PGSIZE

\* C34: a user page fault whose frame would not lie entirely in the
\* exception stack page destroys the environment and writes no frame: every
\* frame the kernel writes lies in that page.
C34_OverflowDestroys ==
    [][UserPageFault' =>
         IF InExceptionStack(UtfVa(last'.tf.tf_esp))
         THEN TRUE
         ELSE /\ last'.utf.va = NULL
              /\ envs'[last'.caller].env_status = ENV_FREE
    ]_vars

-----------------------------------------------------------------------------
\* The library's page fault handler (lib/fork.c), under SpecFork.

\* Environment e takes the step of the handler from place a to place b.
HStep(e, a, b) == user.env[e].hpc = a /\ user'.env[e].hpc = b

\* The page the handler of e was entered for.
FaultPN(e) == user.env[e].utf.utf_fault_va.pn

\* The fault it was entered for is a write to a copy-on-write page.
CowWrite(e) ==
    /\ (user.env[e].utf.utf_err \div FEC_WR) % 2 = 1
    /\ PTE_COW \subseteq ptes[e][FaultPN(e)].perm

\* The step changes no mapping of e but those of the pages pns.
OthersKept(e, pns) == \A pn \in ModelPNs \ pns : ptes'[e][pn] = ptes[e][pn]

\* C35: the handler goes on only for a write to a copy-on-write page and
\* panics otherwise, changing no mapping; it maps a fresh frame at PFTEMP,
\* copies the page to it, maps that frame PTE_P|PTE_U|PTE_W at the faulting
\* page, which takes one reference from the old frame, and unmaps PFTEMP;
\* no other mapping of the environment changes on the way.
C35_CowFaultHandler ==
    [][\A e \in Slots :
          LET old == ptes[e][FaultPN(e)].pa
              tmp == ptes[e][PFTEMP_PN].pa
          IN
          /\ (user.env[e].hpc = "pgfault" /\ user'.env[e] # user.env[e]) =>
                IF CowWrite(e)
                THEN \/ /\ HStep(e, "pgfault", "memmove")
                        /\ ptes'[e][PFTEMP_PN].perm = PUW
                        /\ pp_ref[ptes'[e][PFTEMP_PN].pa] = 0
                        /\ pp_ref'[ptes'[e][PFTEMP_PN].pa] = 1
                        /\ OthersKept(e, {PFTEMP_PN})
                     \/ /\ user'.env[e].pc = "panic"
                        /\ last'.op = "sys_page_alloc" /\ last'.r < 0
                        /\ OthersKept(e, {})
                ELSE /\ user'.env[e].pc = "panic"
                     /\ user'.env[e].hpc = "none"
                     /\ ptes' = ptes /\ pp_ref' = pp_ref
          /\ HStep(e, "memmove", "map") =>
                /\ user'.mem[tmp] = user.mem[old]
                /\ ptes' = ptes /\ pp_ref' = pp_ref
          /\ HStep(e, "map", "unmap") =>
                /\ user.mem[tmp] = user.mem[old]
                /\ ptes'[e][FaultPN(e)] = [pa |-> tmp, perm |-> PUW]
                /\ pp_ref'[old] = pp_ref[old] - 1
                /\ pp_ref'[tmp] = 2
                /\ OthersKept(e, {FaultPN(e)})
          /\ HStep(e, "unmap", "return") =>
                /\ ptes'[e][PFTEMP_PN].perm = {}
                /\ ptes'[e][FaultPN(e)] = [pa |-> tmp, perm |-> PUW]
                /\ pp_ref'[tmp] = 1
                /\ user'.mem[tmp] = user.mem[tmp]
                /\ OthersKept(e, {PFTEMP_PN})
      ]_vars

\* A handler has returned after it replaced a page that was shared.
C35_Witness ==
    \E e \in Slots :
       /\ user.env[e].hpc = "return"
       /\ last.op = "sys_page_unmap" /\ last.caller = e /\ last.r = 0
       /\ ptes[e][FaultPN(e)].perm = PUW
       /\ pp_ref[ptes[e][FaultPN(e)].pa] = 1
       /\ ptes[e][PFTEMP_PN].perm = {}
       /\ \E p \in Slots \ {e} :
             /\ PTE_COW \subseteq ptes[p][FaultPN(e)].perm
             /\ user.mem[ptes[p][FaultPN(e)].pa] =
                   user.mem[ptes[e][FaultPN(e)].pa]

\* A handler has panicked on a write to a page that is not copy-on-write.
C35_WitnessPanic ==
    \E e \in Slots :
       /\ user.env[e].pc = "panic"
       /\ last.op = "trap" /\ last.caller = e
       /\ last.tf.tf_trapno = T_PGFLT
       /\ PTE_COW \cap ptes[e][last.tf.cr2.pn].perm = {}

-----------------------------------------------------------------------------
\* duppage (lib/fork.c), under SpecFork.

\* Environment e takes the step of fork from place a to a place of B.
FStep(e, a, B) ==
    /\ user.env[e].pc = a
    /\ user'.env[e].pc \in B
    /\ user'.env[e] # user.env[e]

\* The places of fork after a duppage that did not panic.
AfterDuppage == {"duppage", "xstack", "upcall", "status"}

PUCow == PTE_P \cup PTE_U \cup PTE_COW

\* C36: duppage of a page that is writable or copy-on-write maps the frame
\* PTE_P|PTE_U|PTE_COW in the child while the parent's mapping is still as
\* it was, and then maps it so in the parent; duppage of any other page
\* maps the frame PTE_P|PTE_U in the child and leaves the parent's mapping.
C36_Duppage ==
    [][\A e \in Slots :
          LET pn == user.env[e].pn
              c == ENVX(user.env[e].child)
              pte == ptes[e][pn]
              shared == pte.perm \cap (PTE_W \cup PTE_COW) # {}
          IN
          /\ FStep(e, "duppage", AfterDuppage \cup {"duppage_self"}) =>
                /\ user'.env[e].pc = "duppage_self" <=> shared
                /\ ptes'[c][pn] =
                      [pa |-> pte.pa,
                       perm |-> IF shared THEN PUCow ELSE PTE_P \cup PTE_U]
                /\ ptes'[e][pn] = pte
          /\ FStep(e, "duppage_self", AfterDuppage) =>
                /\ ptes[c][pn] = [pa |-> pte.pa, perm |-> PUCow]
                /\ ptes'[c][pn] = ptes[c][pn]
                /\ ptes'[e][pn] = [pa |-> pte.pa, perm |-> PUCow]
      ]_vars

\* A duppage has made a writable page copy-on-write in child and parent.
C36_Witness ==
    \E e \in Slots :
       LET c == ENVX(user.env[e].child)
       IN /\ user.env[e].pc \in AfterDuppage
          /\ last.op = "sys_page_map" /\ last.caller = e /\ last.r = 0
          /\ c # e
          /\ ptes[e][ProgPN].perm = PUCow
          /\ ptes[c][ProgPN] = ptes[e][ProgPN]

\* A duppage has mapped a read-only page read-only in the child.
C36_WitnessReadOnly ==
    \E e \in Slots :
       LET c == ENVX(user.env[e].child)
       IN /\ user.env[e].pc \in AfterDuppage
          /\ c # e
          /\ ptes[e][0].perm = PTE_P \cup PTE_U
          /\ ptes[c][0] = ptes[e][0]

-----------------------------------------------------------------------------
\* The stack at the call of trap(), under SpecEntry.

\* C37: at the call of trap() the stack holds one error code word, the
\* processor's where it pushes one and the stub's zero elsewhere, with the
\* trap number before it, so that the fields of the trap frame are the trap
\* number, the error code and the return frame at every vector.
C37_UniformLayout ==
    kstate = "trap" =>
       LET tf == Trapframe(kstack)
       IN /\ Cardinality({i \in DOMAIN kstack : kstack[i].w = "err"}) = 1
          /\ tf.tf_trapno = Word("trapno", last.tf.tf_trapno)
          /\ tf.tf_err = Word("err", last.tf.tf_err)
          /\ tf.tf_eip.w = "eip"
          /\ tf.tf_cs.w = "cs"
          /\ tf.tf_eflags.w = "eflags"

\* The same at every vector but that of the alignment check.
C37_UniformButAlign ==
    (kstate = "trap" /\ last.tf.tf_trapno # T_ALIGN) =>
       LET tf == Trapframe(kstack)
       IN /\ Cardinality({i \in DOMAIN kstack : kstack[i].w = "err"}) = 1
          /\ tf.tf_trapno = Word("trapno", last.tf.tf_trapno)
          /\ tf.tf_err = Word("err", last.tf.tf_err)
          /\ tf.tf_eip.w = "eip"
          /\ tf.tf_cs.w = "cs"
          /\ tf.tf_eflags.w = "eflags"

-----------------------------------------------------------------------------
\* The transmit ring's counters (kern/e100.c), under SpecNic.

\* The command blocks that cb_to_clean steps over in a call of
\* e100_xmit_frame: one for each increment of cbs_avail, and a call that
\* returns 0 takes one block again.
Cleaned == e100'.cbs_avail - e100.cbs_avail + (IF e100'.ret = 0 THEN 1 ELSE 0)
\* The command blocks from cb_to_clean up to cb_to_use.
UpToUse(nic) == ((nic.cb_to_use + CBLSIZE - nic.cb_to_clean) % CBLSIZE) + 1

\* cbs_avail is never negative.
C38_AvailNotNegative == e100.cbs_avail >= 0
\* cbs_avail is at most CBLSIZE.
C38_AvailInRing == e100.cbs_avail <= CBLSIZE
\* cbs_avail is at most the number of free command blocks.
C38_AvailAtMostFree ==
    e100.cbs_avail <= Cardinality({i \in Ring : FreeCB(e100, i)})
\* cb_to_clean steps over no more blocks than there are up to cb_to_use.
C38_CleanBehindUse ==
    [][NicCall("e100_xmit_frame") => Cleaned <= UpToUse(e100)]_vars

\* C38: after every step of the driver and of the device cbs_avail lies in
\* 0 .. CBLSIZE and is at most the number of command blocks that the device
\* has finished with and that are not queued again; in a call of
\* e100_xmit_frame cb_to_clean does not pass cb_to_use, and no command block
\* that the device has not completed is written.
C38_TxBookkeeping ==
    [][/\ e100'.cbs_avail \in 0 .. CBLSIZE
       /\ e100'.cbs_avail <= Cardinality({i \in Ring : FreeCB(e100', i)})
       /\ NicCall("e100_xmit_frame") =>
             /\ Cleaned <= UpToUse(e100)
             /\ \A i \in Ring :
                   e100.cbs[i].dev => e100'.cbs[i].data = e100.cbs[i].data
      ]_vars

-----------------------------------------------------------------------------
\* The receive ring (kern/e100.c), under SpecNic.

\* The completed descriptors that were not handed out, and their frames in
\* the order of the ring from rfd_to_use on.
Pending(nic) == {i \in Ring : PendingRFD(nic, i)}
RxSlot(nic, j) == (nic.rfd_to_use + j - 1) % RFASIZE
RxQueue(nic) ==
    [j \in 1 .. Cardinality(Pending(nic)) |-> nic.rfds[RxSlot(nic, j)].data]
\* The completed descriptors are the ones that follow rfd_to_use.
RxInOrder(nic) ==
    Pending(nic) = {RxSlot(nic, j) : j \in 1 .. Cardinality(Pending(nic))}

\* The device completed a descriptor in this step.
Received == e100'.ru # e100.ru

\* C39: the completed descriptors are a queue that starts at rfd_to_use: a
\* frame that the device completes joins it at the end, e100_rx hands out
\* its first frame and takes it off by clearing the descriptor's status, or
\* returns RFA_EMPTY when it is empty, and no other step changes it; so each
\* completed descriptor is handed out once, in the order of arrival.
C39_RxDelivery ==
    [][/\ RxInOrder(e100) /\ RxInOrder(e100')
       /\ Received =>
             \E data \in Packets : RxQueue(e100') = Append(RxQueue(e100), data)
       /\ NicCall("e100_rx") =>
             IF RxQueue(e100) = <<>>
             THEN e100'.ret = 0 - E_RFA_EMPTY /\ RxQueue(e100') = <<>>
             ELSE /\ e100'.ret = Head(RxQueue(e100))
                  /\ RxQueue(e100') = Tail(RxQueue(e100))
                  /\ e100'.rfds[e100.rfd_to_use].status = 0
       /\ (~Received /\ ~NicCall("e100_rx")) => RxQueue(e100') = RxQueue(e100)
      ]_vars

\* e100_rx has handed out the frame that arrived first, and the one that
\* arrived after it waits; then that one is handed out with the ring empty.
C39_Witness ==
    /\ e100.op = "e100_rx"
    /\ e100.ret = 2
    /\ RxQueue(e100) = <<1>>
    /\ e100.rfds[RingPrev(e100.rfd_to_use)].status = 0

\* The ring was full of completed descriptors when e100_rx was called.
C39_WitnessFull ==
    /\ e100.op = "e100_rx"
    /\ Len(RxQueue(e100)) = RFASIZE - 1
    /\ e100.ret > 0

-----------------------------------------------------------------------------
\* The pointers given to system calls, under SpecPtr.

\* The step is the system call op.
PtrCall(op) == nsteps' = nsteps + 1 /\ last'.op = op

\* The call was given a pointer at which the caller cannot access len bytes
\* with the bits of perm only if it destroyed the caller and touched neither
\* the memory nor the driver.
Checked(len, perm) ==
    ~user_mem_check(K, curenv, last'.arg.va, len, perm) =>
       /\ envs'[curenv].env_status = ENV_FREE
       /\ kstate' # "panic"
       /\ user'.mem = user.mem
       /\ e100' = e100

\* sys_cputs and sys_xmit_frame destroy a caller that cannot read the whole
\* buffer.
C40_BuffersChecked ==
    [][/\ PtrCall("sys_cputs") => Checked(BufLen, PTE_P \cup PTE_U)
       /\ PtrCall("sys_xmit_frame") => Checked(BufLen, PTE_P \cup PTE_U)
      ]_vars

\* C40: sys_cputs, sys_xmit_frame, sys_rx and sys_env_set_trapframe destroy
\* the caller, and touch nothing, when the caller cannot itself read (write,
\* for sys_rx) the whole range at the pointer it gave.
C40_PointersChecked ==
    [][/\ PtrCall("sys_cputs") => Checked(BufLen, PTE_P \cup PTE_U)
       /\ PtrCall("sys_xmit_frame") => Checked(BufLen, PTE_P \cup PTE_U)
       /\ PtrCall("sys_rx") => Checked(1, PUW)
       /\ PtrCall("sys_env_set_trapframe") =>
             Checked(TF_SIZE, PTE_P \cup PTE_U)
      ]_vars

\* sys_rx returned a frame that the kernel wrote into its own memory.
C40_RxWroteKernel ==
    /\ last.op = "sys_rx"
    /\ last.r > 0
    /\ last.arg.va.pn >= KERNBASE_PN
    /\ kstate = "user"

\* sys_env_set_trapframe returned 0 with a frame read from the kernel's
\* memory.
C40_TfReadKernel ==
    /\ last.op = "sys_env_set_trapframe"
    /\ last.r = 0
    /\ last.arg.va.pn >= KERNBASE_PN
    /\ kstate = "user"
====
